---- MODULE Spec2Model ----
(***************************************************************************)
(* The stop-resolution and route-optimization handler of the Birthday      *)
(* Scout app (src/app/api/optimize-route/route.ts), as a state machine.    *)
(*                                                                         *)
(* Strings are sequences of one-character strings, so that trim,           *)
(* toLowerCase and includes are computed and not assumed.  Coordinates     *)
(* are integers in micro-degrees (1e-6 degree); toFixed(k) rounds them to  *)
(* 10^(6-k) micro-degrees.  Distances are integers.                        *)
(*                                                                         *)
(* One step of the model is one turn of the JavaScript event loop: the     *)
(* arrival of a request or of the answer to one outbound call, together    *)
(* with all the synchronous code and promise continuations that run        *)
(* before the next await on the network.                                   *)
(***************************************************************************)
EXTENDS Integers, Sequences, FiniteSets, TLC

VARIABLES
    ORS_KEY,            \* route.ts:14, TRUE when the variable is set
    GOOGLE_PLACES_KEY,  \* route.ts:15
    placesCache,        \* route.ts:163, the set of entries [key, at, geo]
    now,                \* Date.now(), in milliseconds
    pc,                 \* where POST stands: idle, origin, stops, matrix, solver, done
                        \* (matrixBody, solverBody: reading a body that does not end)
    body,               \* the request body (route.ts:286)
    start,              \* route.ts:294
    startSource,        \* route.ts:295
    originTask,         \* the geocodeClosest call of route.ts:302
    tasks,              \* the resolveStopGeo calls of route.ts:309-321, one per stop
    matrix,             \* what the try block of route.ts:327-334 ended with
    resolvedStops,      \* route.ts:336
    suggested,          \* route.ts:347, an index into resolvedStops (0: none yet)
    destinationId,      \* route.ts:376
    intToId,            \* route.ts:380, the stop id of job 1, 2, ...
    solver,             \* the answer to the solver call of route.ts:396
    response,           \* the NextResponse returned, or NoResponse
    calls,              \* outbound calls issued so far, per upstream service
    heard,              \* the answers one resolution under study has received, in
                        \* order (kept by the resolver specification only)
    page                \* the plan page: its React state, and the doOptimize calls
                        \* whose fetch is in flight (page.tsx)

vars == <<ORS_KEY, GOOGLE_PLACES_KEY, placesCache, now, pc, body, start,
          startSource, originTask, tasks, matrix, resolvedStops, suggested,
          destinationId, intToId, solver, response, calls, heard, page>>

(***************************************************************************)
(* Bounds of the model.                                                    *)
(***************************************************************************)
MaxStops == 2
MaxResolutions == 2
MaxTicks == 2
MaxSolveStops == 3
MaxResults == 2
MaxPlan == 3

(***************************************************************************)
(* An optional value is a sequence of length at most one: << >> stands for *)
(* undefined, null, NaN and every other value that is not a finite number  *)
(* (or not an object, for a coordinate), <<v>> for the value v.  An absent *)
(* string is the empty string: the handler only tests such a string for    *)
(* truthiness.                                                             *)
(***************************************************************************)
Undefined == << >>

Some(v) == <<v>>

IsNumber(x) == Len(x) = 1

\* The coordinate of a task that has not resolved; never read.
NoGeo == [lat |-> 0, lon |-> 0]

Abs(x) == IF x < 0 THEN -x ELSE x

Range(s) == {s[i] : i \in DOMAIN s}

(***************************************************************************)
(* Strings.                                                                *)
(***************************************************************************)
UpperCase == <<"A", "B", "C", "D", "E", "F", "G", "H", "I", "J", "K", "L", "M",
               "N", "O", "P", "Q", "R", "S", "T", "U", "V", "W", "X", "Y", "Z">>
LowerCase == <<"a", "b", "c", "d", "e", "f", "g", "h", "i", "j", "k", "l", "m",
               "n", "o", "p", "q", "r", "s", "t", "u", "v", "w", "x", "y", "z">>

LowerOf(c) ==
    IF \E i \in DOMAIN UpperCase : UpperCase[i] = c
    THEN LowerCase[CHOOSE i \in DOMAIN UpperCase : UpperCase[i] = c]
    ELSE c

toLowerCase(s) == [i \in 1..Len(s) |-> LowerOf(s[i])]

includes(s, t) == \E i \in 0..(Len(s) - Len(t)) : SubSeq(s, i + 1, i + Len(t)) = t

IsSpace(c) == c = " "

RECURSIVE trimStart(_)
trimStart(s) == IF Len(s) > 0 /\ IsSpace(Head(s)) THEN trimStart(Tail(s)) ELSE s

RECURSIVE trimEnd(_)
trimEnd(s) ==
    IF Len(s) > 0 /\ IsSpace(s[Len(s)]) THEN trimEnd(SubSeq(s, 1, Len(s) - 1)) ELSE s

trim(s) == trimEnd(trimStart(s))

\* A JavaScript string is truthy when it is not empty.
Truthy(s) == Len(s) > 0

(***************************************************************************)
(* Coordinates and distances.                                              *)
(***************************************************************************)
\* Number.prototype.toFixed(digits) of a coordinate: the nearest multiple of
\* 10^(6-digits) micro-degrees, halves away from zero.
RoundTo(x, unit) ==
    IF x >= 0 THEN ((x + unit \div 2) \div unit) * unit
    ELSE -(((-x + unit \div 2) \div unit) * unit)

toFixed2(x) == RoundTo(x, 10000)
toFixed5(x) == RoundTo(x, 10)

\* Stands for the great-circle distance: a symmetric integer metric on the
\* micro-degree grid, at 9 micro-degrees to the metre.
haversineMeters(a, b) == (Abs(b.lat - a.lat) + Abs(b.lon - a.lon)) \div 9

\* m / 1609.34, kept exact: the result counts 1/160934 of a mile.
metersToMiles(m) == m * 100

(***************************************************************************)
(* ORS geocode: geocodeClosest (route.ts:71-110).                          *)
(*                                                                         *)
(* The answer to one outbound call: t is "abort" (the deadline of          *)
(* fetchWithTimeout fired), "status" (a non-success status), "badjson"     *)
(* (the body does not parse) or "ok" with the parsed body in data.         *)
(***************************************************************************)
Abort == [t |-> "abort", data |-> << >>]
BadStatus == [t |-> "status", data |-> << >>]
BadJson == [t |-> "badjson", data |-> << >>]
\* The response's head arrives, so fetchWithTimeout returns and clears its
\* timer (route.ts:22-24), and the body the caller then reads never ends.
Stalled == [t |-> "stall", data |-> << >>]

Ok(data) == [t |-> "ok", data |-> data]

\* The radii of the passes; the number of passes is Len(passes).
passes == <<8000, 20000, 50000>>

\* all.length >= 15
EnoughCandidates == 15

\* `${coords[0].toFixed(5)},${coords[1].toFixed(5)}`
seenKey(g) == <<toFixed5(g.lon), toFixed5(g.lat)>>

\* The loop of route.ts:83-90 over the features of one pass. A feature is
\* its optional coordinate.
RECURSIVE collect(_, _)
collect(all, feats) ==
    IF feats = << >> THEN all
    ELSE LET f == Head(feats) IN
         IF f = Undefined \/ \E a \in Range(all) : seenKey(a) = seenKey(f[1])
         THEN collect(all, Tail(feats))
         ELSE collect(Append(all, f[1]), Tail(feats))

\* The loop of route.ts:96-106: the first candidate at minimum distance.
RECURSIVE closestFrom(_, _, _, _)
closestFrom(all, ref, i, best) ==
    IF i > Len(all) THEN all[best]
    ELSE IF i = 1 \/ haversineMeters(ref, all[i]) < haversineMeters(ref, all[best])
         THEN closestFrom(all, ref, i + 1, i)
         ELSE closestFrom(all, ref, i + 1, best)

closest(all, ref) == closestFrom(all, ref, 1, 1)

(***************************************************************************)
(* A resolution task: one call of resolveStopGeo (or, for the origin, of   *)
(* geocodeClosest).  st is "wait" while an outbound call is in flight,     *)
(* "ok" once the promise is fulfilled with geo, "err" once it is rejected  *)
(* with err.  step is the places phase (1, 2) or the geocode pass (1..3)   *)
(* whose call is in flight, all the candidates geocodeClosest has so far.  *)
(* calls counts the outbound calls the task has issued; since is          *)
(* Date.now() when it was called.                                          *)
(***************************************************************************)
Task(strategy, name, ref, since) ==
    [strategy |-> strategy, name |-> name, ref |-> ref, st |-> "wait", step |-> 1,
     all |-> << >>, geo |-> NoGeo, err |-> "", calls |-> 1, since |-> since]

NoTask == [Task("none", << >>, NoGeo, 0) EXCEPT !.st = "idle", !.step = 0, !.calls = 0]

\* A settled task keeps its outcome only: the locals of the call are gone.
Fulfilled(task, geo) == [task EXCEPT !.st = "ok", !.geo = geo, !.step = 0, !.all = << >>]

Rejected(task, err) == [task EXCEPT !.st = "err", !.err = err, !.step = 0, !.all = << >>]

\* The task awaits res.json() on a body that does not end: st is "body".
Reading(task) == [task EXCEPT !.st = "body", !.step = 0, !.all = << >>]

\* The task issues the call of its next phase or pass.
NextCall(task) == [task EXCEPT !.step = @ + 1, !.calls = @ + 1]

\* geocodeClosest up to its first await: the call of pass 1 is in flight,
\* unless geocodeSearch throws for the missing key (route.ts:48).
geocodeStart(ref, t) ==
    IF ORS_KEY THEN Task("ors", << >>, ref, t)
    ELSE Rejected([Task("ors", << >>, ref, t) EXCEPT !.calls = 0],
                  "Missing ORS_API_KEY in env")

\* geocodeResume issuing the call of a pass a second time when its first
\* answer is a non-success status.
geocodeResume_retry(task, answer) ==
    CASE answer.t = "abort" -> Rejected(task, "AbortError")
      [] answer.t = "status" ->
            IF task.calls = task.step THEN [task EXCEPT !.calls = @ + 1]
            ELSE Rejected(task, "Geocode failed")
      [] answer.t = "badjson" -> Rejected(task, "SyntaxError")
      [] answer.t = "stall" -> Reading(task)
      [] OTHER ->
            LET all == collect(task.all, answer.data) IN
            IF Len(all) < EnoughCandidates /\ task.step < Len(passes)
            THEN NextCall([task EXCEPT !.all = all])
            ELSE IF Len(all) = 0
                 THEN Rejected(task, "No geocode result")
                 ELSE Fulfilled(task, closest(all, task.ref))

\* geocodeResume without the early stop: every pass is issued.
geocodeResume_noEarlyStop(task, answer) ==
    CASE answer.t = "abort" -> Rejected(task, "AbortError")
      [] answer.t = "status" -> Rejected(task, "Geocode failed")
      [] answer.t = "badjson" -> Rejected(task, "SyntaxError")
      [] answer.t = "stall" -> Reading(task)
      [] OTHER ->
            LET all == collect(task.all, answer.data) IN
            IF task.step < Len(passes)
            THEN NextCall([task EXCEPT !.all = all])
            ELSE IF Len(all) = 0
                 THEN Rejected(task, "No geocode result")
                 ELSE Fulfilled(task, closest(all, task.ref))

\* geocodeClosest from the answer to the call of pass task.step up to the
\* next await or the end.
geocodeResume(task, answer) ==
    CASE answer.t = "abort" -> Rejected(task, "AbortError")
      [] answer.t = "status" -> Rejected(task, "Geocode failed")
      [] answer.t = "badjson" -> Rejected(task, "SyntaxError")
      [] answer.t = "stall" -> Reading(task)
      [] OTHER ->
            LET all == collect(task.all, answer.data) IN
            IF Len(all) < EnoughCandidates /\ task.step < Len(passes)
            THEN NextCall([task EXCEPT !.all = all])
            ELSE IF Len(all) = 0
                 THEN Rejected(task, "No geocode result")
                 ELSE Fulfilled(task, closest(all, task.ref))

(***************************************************************************)
(* Chain detection (route.ts:153-160).                                     *)
(***************************************************************************)
Starbucks == <<"S", "t", "a", "r", "b", "u", "c", "k", "s">>
Chipotle == <<"C", "h", "i", "p", "o", "t", "l", "e">>
NothingBundt == <<"n", "o", "t", "h", "i", "n", "g", " ", "b", "u", "n", "d", "t">>
NothingBundtCakes == <<"N", "o", "t", "h", "i", "n", "g", " ", "B", "u", "n", "d", "t",
                       " ", "C", "a", "k", "e", "s">>

\* detectChain testing the query as it was typed.
detectChain_caseSensitive(query) ==
    IF includes(query, toLowerCase(Starbucks)) THEN Starbucks
    ELSE IF includes(query, toLowerCase(Chipotle)) THEN Chipotle
    ELSE IF includes(query, NothingBundt) THEN NothingBundtCakes
    ELSE << >>

\* The chain's name, or << >> for null.
detectChain(query) ==
    LET q == toLowerCase(query) IN
    IF includes(q, toLowerCase(Starbucks)) THEN Starbucks
    ELSE IF includes(q, toLowerCase(Chipotle)) THEN Chipotle
    ELSE IF includes(q, NothingBundt) THEN NothingBundtCakes
    ELSE << >>

(***************************************************************************)
(* Google Places cache and placesNearestByName (route.ts:162-260).         *)
(***************************************************************************)
PLACES_TTL_MS == 24 * 60 * 60 * 1000

placesCacheKey(name, ref) == <<name, toFixed2(ref.lat), toFixed2(ref.lon)>>

\* placesCache.get(key): the entries under key (none or one).
cacheGet(cache, key) == {e \in cache : e.key = key}

\* placesCache.set(key, { at, geo })
cacheSet(cache, key, at, geo) ==
    {e \in cache : e.key # key} \cup {[key |-> key, at |-> at, geo |-> geo]}

\* cacheFresh with the TTL taken in seconds.
cacheFresh_seconds(e, t) == t - e.at < PLACES_TTL_MS \div 1000

\* The test of route.ts:182.
cacheFresh(e, t) == t - e.at < PLACES_TTL_MS

cacheHit(cache, key, t) == {e \in cacheGet(cache, key) : cacheFresh(e, t)}

\* A place of a results array: its name and its optional location.
Place(name, loc) == [name |-> name, loc |-> loc]

isGoodMatch(r, target) == includes(toLowerCase(r.name), target)

filterGood(results, target) == SelectSeq(results, LAMBDA r : isGoodMatch(r, target))

\* pickFirst: the location of arr[0], or << >> for null.
pickFirst(arr) == IF Len(arr) = 0 THEN Undefined ELSE arr[1].loc

\* The comparator of route.ts:239-253.
compareByDistance(a, b, ref) ==
    IF a.loc = Undefined /\ b.loc = Undefined THEN 0
    ELSE IF a.loc = Undefined THEN 1
    ELSE IF b.loc = Undefined THEN -1
    ELSE haversineMeters(ref, a.loc[1]) - haversineMeters(ref, b.loc[1])

\* sortByDistance leaving the array as it came.
sortByDistance_unsorted(arr, ref) == arr

\* Array.prototype.sort with that comparator: a stable insertion sort.
RECURSIVE insertSorted(_, _, _)
insertSorted(sorted, r, ref) ==
    IF sorted = << >> THEN <<r>>
    ELSE IF compareByDistance(r, Head(sorted), ref) < 0 THEN <<r>> \o sorted
    ELSE <<Head(sorted)>> \o insertSorted(Tail(sorted), r, ref)

RECURSIVE sortByDistance(_, _)
sortByDistance(arr, ref) ==
    IF arr = << >> THEN << >>
    ELSE insertSorted(sortByDistance(SubSeq(arr, 1, Len(arr) - 1), ref), arr[Len(arr)], ref)

\* What one step of placesNearestByName leaves: the task, the cache and the
\* number of outbound calls it issued.
Step(task, cache, issued) == [task |-> task, cache |-> cache, issued |-> issued]

\* placesNearestByName up to its first await: without the key it throws, a
\* fresh cache entry fulfils it at once, otherwise the call of phase 1 is in
\* flight.
placesStart(name, ref, cache, t) ==
    LET key == placesCacheKey(name, ref)
        hit == cacheHit(cache, key, t)
        task == Task("google_places", name, ref, t)
    IN  IF ~GOOGLE_PLACES_KEY
        THEN Step(Rejected([task EXCEPT !.calls = 0],
                           "Missing GOOGLE_PLACES_API_KEY in env"), cache, 0)
        ELSE IF hit # {}
        THEN Step(Fulfilled([task EXCEPT !.calls = 0], (CHOOSE e \in hit : TRUE).geo),
                  cache, 0)
        ELSE Step(task, cache, 1)

\* placesResume with the failure to find a strict match cached too, as the
\* reference point.
placesResume_negativeCaching(task, answer, cache, t) ==
    LET key == placesCacheKey(task.name, task.ref)
        target == toLowerCase(task.name)
    IN
    CASE answer.t = "abort" -> Step(Rejected(task, "AbortError"), cache, 0)
      [] answer.t = "status" ->
            Step(Rejected(task, IF task.step = 1 THEN "Places NearbySearch failed"
                                ELSE "Places NearbySearch (radius) failed"), cache, 0)
      [] answer.t = "badjson" -> Step(Rejected(task, "SyntaxError"), cache, 0)
      [] answer.t = "stall" -> Step(Reading(task), cache, 0)
      [] OTHER ->
            LET good == filterGood(answer.data, target) IN
            IF task.step = 1
            THEN LET got1 == pickFirst(good) IN
                 IF got1 # Undefined
                 THEN Step(Fulfilled(task, got1[1]), cacheSet(cache, key, t, got1[1]), 0)
                 ELSE Step(NextCall(task), cache, 1)
            ELSE IF Len(good) = 0
                 THEN Step(Rejected(task, "Places returned no strict match"),
                           cacheSet(cache, key, t, task.ref), 0)
                 ELSE LET got2 == pickFirst(sortByDistance(good, task.ref)) IN
                      IF got2 = Undefined
                      THEN Step(Rejected(task, "Places strict match had bad geometry"),
                                cache, 0)
                      ELSE Step(Fulfilled(task, got2[1]),
                                cacheSet(cache, key, t, got2[1]), 0)

\* placesNearestByName from the answer to the call of phase task.step up to
\* the next await or the end.
placesResume(task, answer, cache, t) ==
    LET key == placesCacheKey(task.name, task.ref)
        target == toLowerCase(task.name)
    IN
    CASE answer.t = "abort" -> Step(Rejected(task, "AbortError"), cache, 0)
      [] answer.t = "status" ->
            Step(Rejected(task, IF task.step = 1 THEN "Places NearbySearch failed"
                                ELSE "Places NearbySearch (radius) failed"), cache, 0)
      [] answer.t = "badjson" -> Step(Rejected(task, "SyntaxError"), cache, 0)
      [] answer.t = "stall" -> Step(Reading(task), cache, 0)
      [] OTHER ->
            LET good == filterGood(answer.data, target) IN
            IF task.step = 1
            THEN LET got1 == pickFirst(good) IN
                 IF got1 # Undefined
                 THEN Step(Fulfilled(task, got1[1]), cacheSet(cache, key, t, got1[1]), 0)
                 ELSE Step(NextCall(task), cache, 1)
            ELSE IF Len(good) = 0
                 THEN Step(Rejected(task, "Places returned no strict match"), cache, 0)
                 ELSE LET got2 == pickFirst(sortByDistance(good, task.ref)) IN
                      IF got2 = Undefined
                      THEN Step(Rejected(task, "Places strict match had bad geometry"),
                                cache, 0)
                      ELSE Step(Fulfilled(task, got2[1]),
                                cacheSet(cache, key, t, got2[1]), 0)

(***************************************************************************)
(* resolveStopGeo (route.ts:263-275).                                      *)
(***************************************************************************)
resolveStart(query, ref, cache, t) ==
    LET chain == detectChain(query) IN
    IF chain # << >> THEN placesStart(chain, ref, cache, t)
    ELSE LET task == geocodeStart(ref, t) IN
         Step(task, cache, IF task.st = "wait" THEN 1 ELSE 0)

resolveResume(task, answer, cache, t) ==
    IF task.strategy = "google_places" THEN placesResume(task, answer, cache, t)
    ELSE LET next == geocodeResume(task, answer) IN
         Step(next, cache, IF next.st = "wait" THEN 1 ELSE 0)

\* `google_places:${chain.name}` or "ors"
pickedFrom(task) ==
    IF task.strategy = "google_places" THEN <<"google_places", task.name>> ELSE <<"ors">>

(***************************************************************************)
(* The values the model draws its inputs from.                             *)
(***************************************************************************)
IdA == <<"a">>
IdB == <<"b">>
IdSpaceA == <<" ", "a">>

QueryStarbucks == <<"S", "T", "A", "R", "B", "U", "C", "K", "S">>
QueryAddress == <<"1", " ", "M", "a", "i", "n">>

Zip == <<"8", "9", "1", "0", "9">>
Blank == <<" ">>

vegasSeed == [lat |-> 36169900, lon |-> -115139800]
\* StartA and StartB lie in one cell of the 2-decimal grid, StartC in the next.
StartA == [lat |-> 36171200, lon |-> -115141500]
StartB == [lat |-> 36173900, lon |-> -115143100]
StartC == [lat |-> 36180400, lon |-> -115139800]
PointNear == [lat |-> 36180000, lon |-> -115140000]
PointFar == [lat |-> 36250000, lon |-> -115200000]

StopRequests ==
    {[id |-> IdA, query |-> QueryStarbucks], [id |-> IdB, query |-> QueryAddress],
     [id |-> IdSpaceA, query |-> QueryAddress]}

StopLists == UNION {[1..n -> StopRequests] : n \in 0..MaxStops}

\* ReqBody (route.ts:4-10); wellFormed is FALSE for a body req.json() rejects.
MalformedBody ==
    [wellFormed |-> FALSE, startQuery |-> << >>, startCoords |-> Undefined,
     destinationId |-> << >>, previewOnly |-> FALSE, stops |-> << >>]

Bodies ==
    [wellFormed : {TRUE},
     startQuery : {Blank, Zip},
     startCoords : {Undefined, Some(StartA)},
     destinationId : {<< >>, IdA, IdSpaceA},
     previewOnly : BOOLEAN,
     stops : StopLists]
    \cup {MalformedBody}

NoBody == [MalformedBody EXCEPT !.wellFormed = TRUE]

StarbucksReserve == Starbucks \o <<" ", "R">>
CoffeeBean == <<"C", "o", "f", "f", "e", "e">>

GeocodeAnswers ==
    {Abort, BadStatus, BadJson, Stalled, Ok(<< >>),
     Ok(<<Some(PointFar), Some(PointNear)>>)}

PlacesAnswers ==
    {Abort, BadStatus, BadJson, Stalled, Ok(<< >>),
     Ok(<<Place(CoffeeBean, Some(PointNear)), Place(StarbucksReserve, Some(PointNear))>>),
     Ok(<<Place(StarbucksReserve, Some(PointFar))>>)}

\* The entries of the matrix answer for one stop: a distance and a duration,
\* each a number or not.
MatrixEntries ==
    {[m |-> Undefined, s |-> Undefined], [m |-> Some(1000), s |-> Some(20)],
     [m |-> Some(9000), s |-> Some(90)]}

\* The rows the matrix answers with for n stops: every row whose entries
\* after the second repeat the second.
MatrixRows(n) ==
    {e \in [1..n -> MatrixEntries] : \A i \in 3..n : e[i] = e[2]}

MatrixAnswers(n) ==
    {Abort, BadStatus, BadJson, Stalled,
     Ok([distances |-> Undefined, durations |-> Undefined])}
    \cup
    {Ok([distances |-> Some([i \in 1..n |-> e[i].m]),
         durations |-> Some([i \in 1..n |-> e[i].s])]) : e \in MatrixRows(n)}

\* The steps of a solver route for a request of n stops: the vehicle's start
\* step, which carries no job, then up to n job steps in any order, with
\* repeats, over the job ids 1..n-1 (job 1 also where the request has none).
StepLists(n) ==
    {<<Undefined>> \o [i \in 1..Len(js) |-> Some(js[i])] :
        js \in UNION {[1..k -> 1..(IF n > 2 THEN n - 1 ELSE 1)] : k \in 0..n}}

Route(steps, total) == [steps |-> steps, distance |-> total, duration |-> total]

SolverAnswers(n) ==
    {Abort, BadStatus, BadJson, Stalled, Ok([routes |-> << >>]),
     Ok([routes |-> <<Route(<< >>, Undefined)>>])}
    \cup
    {Ok([routes |-> <<Route(s, Some(12000))>>]) : s \in StepLists(n)}

(***************************************************************************)
(* Responses (NextResponse.json).  Every response has all the fields; a    *)
(* field the handler does not send is empty.                               *)
(***************************************************************************)
NoResponse ==
    [kind |-> "none", status |-> 0, optimized |-> FALSE, note |-> "",
     orderedIds |-> << >>, destinationId |-> << >>, suggestedDestinationId |-> << >>,
     stops |-> << >>, resolvedStops |-> << >>, routeDistance_m |-> Undefined,
     routeDuration_s |-> Undefined, startUsed |-> Undefined]

ErrorResponse(status, note) ==
    [NoResponse EXCEPT !.kind = "error", !.status = status, !.note = note]

\* The note of the catch block (route.ts:443-448) for an exception.
catchNote(err) == IF err = "AbortError" THEN "Request timed out. Try again." ELSE err

CatchResponse(err) == ErrorResponse(500, catchNote(err))

NoCalls == [geocode |-> 0, places |-> 0, matrix |-> 0, solver |-> 0]

(***************************************************************************)
(* POST, the synchronous code between two awaits (route.ts:277-449).       *)
(***************************************************************************)
\* route.ts:309-321 up to the await: every stop's task runs to its first
\* await, in input order, before any answer is handled.
fanOut(stops, ref, cache, t) ==
    [i \in 1..Len(stops) |-> resolveStart(stops[i].query, ref, cache, t)]

issuedBy(steps, strategy) ==
    Cardinality({i \in DOMAIN steps :
                    steps[i].issued = 1 /\ steps[i].task.strategy = strategy})

\* The array Promise.all yields (route.ts:313-319).
resolvedStopsBase(stops, ts, ref) ==
    [i \in 1..Len(stops) |->
        [id |-> stops[i].id, query |-> stops[i].query, pickedFrom |-> pickedFrom(ts[i]),
         geo |-> ts[i].geo, dist_mi |-> metersToMiles(haversineMeters(ref, ts[i].geo))]]

\* matrixFromStart and the try block around it (route.ts:113-151, 327-334).
matrixResult(answer) ==
    IF answer.t = "ok" /\ answer.data.distances # Undefined
                       /\ answer.data.durations # Undefined
    THEN [ok |-> TRUE, drivingMeters |-> answer.data.distances[1],
          drivingSeconds |-> answer.data.durations[1]]
    ELSE [ok |-> FALSE, drivingMeters |-> << >>, drivingSeconds |-> << >>]

NoMatrix == [ok |-> FALSE, drivingMeters |-> << >>, drivingSeconds |-> << >>]

\* drivingMeters?.[idx]
at(arr, idx) == IF idx \in DOMAIN arr THEN arr[idx] ELSE Undefined

\* Math.round(sec / 60)
roundMinutes(sec) == (sec + 30) \div 60

\* Max without the floor of one minute: the rounded value alone.
Max_rounded(a, b) == b

Max(a, b) == IF a >= b THEN a ELSE b

\* route.ts:336-344
enrich(base, mx) ==
    [idx \in DOMAIN base |->
        LET m == at(mx.drivingMeters, idx)
            sec == at(mx.drivingSeconds, idx)
        IN  [id |-> base[idx].id, query |-> base[idx].query,
             pickedFrom |-> base[idx].pickedFrom, geo |-> base[idx].geo,
             dist_mi |-> base[idx].dist_mi,
             drive_mi |-> IF IsNumber(m) THEN Some(metersToMiles(m[1])) ELSE Undefined,
             eta_min |-> IF IsNumber(sec) THEN Some(Max(1, roundMinutes(sec[1])))
                         ELSE Undefined]]

\* typeof s.drive_mi === "number" ? s.drive_mi : s.dist_mi
rankingDistance(s) == IF IsNumber(s.drive_mi) THEN s.drive_mi[1] ELSE s.dist_mi

\* suggestedFrom with >= for >: the last of the farthest stops wins.
RECURSIVE suggestedFrom_lastWins(_, _, _)
suggestedFrom_lastWins(rs, i, sug) ==
    IF i > Len(rs) THEN sug
    ELSE IF rankingDistance(rs[i]) >= rankingDistance(rs[sug])
         THEN suggestedFrom_lastWins(rs, i + 1, i)
         ELSE suggestedFrom_lastWins(rs, i + 1, sug)

\* The loop of route.ts:347-352, as the index of suggested.
RECURSIVE suggestedFrom(_, _, _)
suggestedFrom(rs, i, sug) ==
    IF i > Len(rs) THEN sug
    ELSE IF rankingDistance(rs[i]) > rankingDistance(rs[sug])
         THEN suggestedFrom(rs, i + 1, i)
         ELSE suggestedFrom(rs, i + 1, sug)

suggestedIndex(rs) == suggestedFrom(rs, 1, 1)

startUsedOf(ref, source) == Some([lat |-> ref.lat, lon |-> ref.lon, source |-> source])

\* route.ts:355-371
PreviewResponse(rs, sug, ref, source) ==
    [NoResponse EXCEPT
        !.kind = "preview", !.status = 200, !.optimized = FALSE,
        !.startUsed = startUsedOf(ref, source),
        !.suggestedDestinationId = rs[sug].id,
        !.stops = [i \in DOMAIN rs |->
                      [id |-> rs[i].id, dist_mi |-> rankingDistance(rs[i]),
                       eta_min |-> rs[i].eta_min, geo |-> rs[i].geo,
                       pickedFrom |-> rs[i].pickedFrom]],
        !.note = "Preview distances + ETA computed"]

\* route.ts:374-376
requestedDest(b) == trim(b.destinationId)

destExists(b, rs) ==
    Truthy(requestedDest(b)) /\ \E i \in DOMAIN rs : rs[i].id = requestedDest(b)

chooseDestination(b, rs, sug) == IF destExists(b, rs) THEN requestedDest(b) ELSE rs[sug].id

\* route.ts:378-385: the stop ids of jobsList, which intToId maps 1, 2, ... to.
jobsList(rs, dest) == SelectSeq(rs, LAMBDA s : s.id # dest)

\* jobIds with the jobs numbered from the last stop to the first.
jobIds_reversed(rs, dest) ==
    [i \in 1..Len(jobsList(rs, dest)) |->
        jobsList(rs, dest)[Len(jobsList(rs, dest)) + 1 - i].id]

jobIds(rs, dest) == [i \in 1..Len(jobsList(rs, dest)) |-> jobsList(rs, dest)[i].id]

\* opt?.routes?.[0]?.steps ?? []
stepsOf(data) == IF Len(data.routes) = 0 THEN << >> ELSE data.routes[1].steps

\* The loop of route.ts:415-421.
RECURSIVE orderedIntermediate(_, _)
orderedIntermediate(steps, table) ==
    IF steps = << >> THEN << >>
    ELSE LET step == Head(steps)
             rest == orderedIntermediate(Tail(steps), table)
         IN  IF IsNumber(step) /\ step[1] \in DOMAIN table /\ Truthy(table[step[1]])
             THEN <<table[step[1]]>> \o rest
             ELSE rest

\* route.ts:423-442
FinalResponse(data, rs, dest, table, ref, source) ==
    [NoResponse EXCEPT
        !.kind = "final", !.status = 200, !.optimized = TRUE,
        !.orderedIds = Append(orderedIntermediate(stepsOf(data), table), dest),
        !.destinationId = dest,
        !.note = "Optimized route",
        !.routeDistance_m = IF Len(data.routes) = 0 THEN Undefined
                            ELSE data.routes[1].distance,
        !.routeDuration_s = IF Len(data.routes) = 0 THEN Undefined
                            ELSE data.routes[1].duration,
        !.startUsed = startUsedOf(ref, source),
        !.resolvedStops = [i \in DOMAIN rs |->
                              [id |-> rs[i].id, geo |-> rs[i].geo,
                               pickedFrom |-> rs[i].pickedFrom]]]

\* route.ts:396-442 from the answer to the solver call.
solverResponse(answer, rs, dest, table, ref, source) ==
    CASE answer.t = "abort" -> CatchResponse("AbortError")
      [] answer.t = "status" -> ErrorResponse(502, "ORS optimization failed")
      [] answer.t = "badjson" -> CatchResponse("SyntaxError")
      [] OTHER -> FinalResponse(answer.data, rs, dest, table, ref, source)

(***************************************************************************)
(* The state after the module is loaded, and the handler's steps.          *)
(***************************************************************************)
\* The plan page before it is mounted (page.tsx:419-439).  call is the
\* doOptimize call whose fetch is in flight, with the values of the render it
\* was made from, or << >>.  claimedIds, the timestamps and the route totals
\* never enter planIds and are left out.
NoPage ==
    [planIds |-> << >>, skippedIds |-> << >>, destinationId |-> << >>,
     promptOff |-> FALSE, lastRouteOrder |-> << >>, error |-> "", status |-> "",
     optimizing |-> FALSE, call |-> << >>]

Init ==
    /\ ORS_KEY \in BOOLEAN
    /\ GOOGLE_PLACES_KEY \in BOOLEAN
    /\ placesCache = {}
    /\ now = 0
    /\ pc = "idle"
    /\ body = NoBody
    /\ start = NoGeo
    /\ startSource = "zip"
    /\ originTask = NoTask
    /\ tasks = << >>
    /\ matrix = NoMatrix
    /\ resolvedStops = << >>
    /\ suggested = 0
    /\ destinationId = << >>
    /\ intToId = << >>
    /\ solver = Abort
    /\ response = NoResponse
    /\ calls = NoCalls
    /\ heard = << >>
    /\ page = NoPage

\* A return before the first outbound call.
ReturnEarly(r) ==
    /\ response' = r
    /\ pc' = "done"
    /\ UNCHANGED <<start, startSource, originTask, tasks, placesCache, calls>>

\* AwaitStops with Promise.race in place of Promise.all: the handler goes on
\* with the first task that is fulfilled.
AwaitStops_firstFulfilled(ts, rejection, c) ==
    IF rejection # ""
    THEN /\ response' = CatchResponse(rejection)
         /\ pc' = "done"
         /\ calls' = c
    ELSE IF \E i \in DOMAIN ts : ts[i].st = "ok"
         THEN /\ pc' = "matrix"
              /\ calls' = [c EXCEPT !.matrix = @ + 1]
              /\ UNCHANGED response
         ELSE /\ pc' = "stops"
              /\ calls' = c
              /\ UNCHANGED response

\* AwaitStops with Promise.allSettled in place of Promise.all: a rejection is
\* not thrown, and the handler goes on once every task has settled.
AwaitStops_allSettled(ts, rejection, c) ==
    IF \A i \in DOMAIN ts : ts[i].st \in {"ok", "err"}
    THEN /\ pc' = "matrix"
         /\ calls' = [c EXCEPT !.matrix = @ + 1]
         /\ UNCHANGED response
    ELSE /\ pc' = "stops"
         /\ calls' = c
         /\ UNCHANGED response

\* The await of Promise.all (route.ts:309): the first rejection is thrown into
\* the catch block; once every task is fulfilled the matrix call is issued.
AwaitStops(ts, rejection, c) ==
    IF rejection # ""
    THEN /\ response' = CatchResponse(rejection)
         /\ pc' = "done"
         /\ calls' = c
    ELSE IF \A i \in DOMAIN ts : ts[i].st = "ok"
         THEN /\ pc' = "matrix"
              /\ calls' = [c EXCEPT !.matrix = @ + 1]
              /\ UNCHANGED response
         ELSE /\ pc' = "stops"
              /\ calls' = c
              /\ UNCHANGED response

\* route.ts:308-321 once start is known.
StartStops(b, ref, c) ==
    LET steps == fanOut(b.stops, ref, placesCache, now)
        ts == [i \in DOMAIN steps |-> steps[i].task]
    IN  /\ tasks' = ts
        /\ UNCHANGED placesCache
        /\ AwaitStops(ts, "",
                      [c EXCEPT !.places = @ + issuedBy(steps, "google_places"),
                                !.geocode = @ + issuedBy(steps, "ors")])

\* PostStart with the check for an empty stop list moved after the origin
\* lookup.
PostStart_stopsCheckedLast(b) ==
    IF ~ORS_KEY
    THEN ReturnEarly(ErrorResponse(500, "Missing ORS_API_KEY"))
    ELSE IF ~GOOGLE_PLACES_KEY
    THEN ReturnEarly(ErrorResponse(500, "Missing GOOGLE_PLACES_API_KEY"))
    ELSE IF ~b.wellFormed
    THEN ReturnEarly(CatchResponse("SyntaxError"))
    ELSE IF b.startCoords = Undefined /\ Truthy(trim(b.startQuery))
    THEN /\ originTask' = geocodeStart(vegasSeed, now)
         /\ calls' = [calls EXCEPT !.geocode = @ + 1]
         /\ pc' = "origin"
         /\ UNCHANGED <<start, startSource, tasks, placesCache, response>>
    ELSE IF Len(b.stops) = 0
    THEN ReturnEarly(ErrorResponse(400, "No stops provided"))
    ELSE IF b.startCoords # Undefined
    THEN /\ start' = b.startCoords[1]
         /\ startSource' = "gps"
         /\ UNCHANGED originTask
         /\ StartStops(b, b.startCoords[1], calls)
    ELSE ReturnEarly(ErrorResponse(400, "Missing start (coords or zip)"))

\* POST from its entry to its first await or to its return (route.ts:278-309).
\* PostStart with the start query tried before the coordinates.
PostStart_queryFirst(b) ==
    IF ~ORS_KEY
    THEN ReturnEarly(ErrorResponse(500, "Missing ORS_API_KEY"))
    ELSE IF ~GOOGLE_PLACES_KEY
    THEN ReturnEarly(ErrorResponse(500, "Missing GOOGLE_PLACES_API_KEY"))
    ELSE IF ~b.wellFormed
    THEN ReturnEarly(CatchResponse("SyntaxError"))
    ELSE IF Len(b.stops) = 0
    THEN ReturnEarly(ErrorResponse(400, "No stops provided"))
    ELSE IF Truthy(trim(b.startQuery))
    THEN /\ originTask' = geocodeStart(vegasSeed, now)
         /\ calls' = [calls EXCEPT !.geocode = @ + 1]
         /\ pc' = "origin"
         /\ UNCHANGED <<start, startSource, tasks, placesCache, response>>
    ELSE IF b.startCoords # Undefined
    THEN /\ start' = b.startCoords[1]
         /\ startSource' = "gps"
         /\ UNCHANGED originTask
         /\ StartStops(b, b.startCoords[1], calls)
    ELSE ReturnEarly(ErrorResponse(400, "Missing start (coords or zip)"))

PostStart(b) ==
    IF ~ORS_KEY
    THEN ReturnEarly(ErrorResponse(500, "Missing ORS_API_KEY"))
    ELSE IF ~GOOGLE_PLACES_KEY
    THEN ReturnEarly(ErrorResponse(500, "Missing GOOGLE_PLACES_API_KEY"))
    ELSE IF ~b.wellFormed
    THEN ReturnEarly(CatchResponse("SyntaxError"))
    ELSE IF Len(b.stops) = 0
    THEN ReturnEarly(ErrorResponse(400, "No stops provided"))
    ELSE IF b.startCoords # Undefined
    THEN /\ start' = b.startCoords[1]
         /\ startSource' = "gps"
         /\ UNCHANGED originTask
         /\ StartStops(b, b.startCoords[1], calls)
    ELSE IF Truthy(trim(b.startQuery))
    THEN /\ originTask' = geocodeStart(vegasSeed, now)
         /\ calls' = [calls EXCEPT !.geocode = @ + 1]
         /\ pc' = "origin"
         /\ UNCHANGED <<start, startSource, tasks, placesCache, response>>
    ELSE ReturnEarly(ErrorResponse(400, "Missing start (coords or zip)"))

\* A request arrives.
Request ==
    /\ pc = "idle"
    /\ \E b \in Bodies :
        /\ body' = b
        /\ PostStart(b)
    /\ UNCHANGED <<ORS_KEY, GOOGLE_PLACES_KEY, now, matrix, resolvedStops,
                   suggested, destinationId, intToId, solver>>
    /\ UNCHANGED <<heard, page>>

\* The answer to a geocode call of the origin arrives (route.ts:302).
OriginReturns ==
    /\ pc = "origin"
    /\ originTask.st = "wait"
    /\ \E answer \in GeocodeAnswers :
        LET t == geocodeResume(originTask, answer)
            c == [calls EXCEPT !.geocode = @ + (IF t.st = "wait" THEN 1 ELSE 0)]
        IN  /\ originTask' = t
            /\ IF t.st \in {"wait", "body"}
               THEN /\ calls' = c
                    /\ UNCHANGED <<pc, start, startSource, tasks, placesCache, response>>
               ELSE IF t.st = "err"
               THEN /\ response' = CatchResponse(t.err)
                    /\ pc' = "done"
                    /\ calls' = c
                    /\ UNCHANGED <<start, startSource, tasks, placesCache>>
               ELSE /\ start' = t.geo
                    /\ startSource' = "zip"
                    /\ StartStops(body, t.geo, c)
    /\ UNCHANGED <<ORS_KEY, GOOGLE_PLACES_KEY, now, body, matrix, resolvedStops,
                   suggested, destinationId, intToId, solver>>
    /\ UNCHANGED <<heard, page>>

AnswersFor(task) ==
    IF task.strategy = "google_places" THEN PlacesAnswers ELSE GeocodeAnswers

countIssued(c, task, issued) ==
    IF task.strategy = "google_places" THEN [c EXCEPT !.places = @ + issued]
    ELSE [c EXCEPT !.geocode = @ + issued]

\* StopReturns with one AbortController for the calls of a request: the
\* deadline of one call aborts every call in flight.
StopReturns_sharedController ==
    /\ \E i \in DOMAIN tasks :
        /\ tasks[i].st = "wait"
        /\ \E answer \in AnswersFor(tasks[i]) :
            LET r == resolveResume(tasks[i], answer, placesCache, now)
                ts == [j \in DOMAIN tasks |->
                         IF j = i THEN r.task
                         ELSE IF answer.t = "abort" /\ tasks[j].st = "wait"
                         THEN Rejected(tasks[j], "AbortError")
                         ELSE tasks[j]]
                c == countIssued(calls, r.task, r.issued)
            IN  /\ tasks' = ts
                /\ placesCache' = r.cache
                /\ IF pc = "stops"
                   THEN AwaitStops(ts, IF r.task.st = "err" THEN r.task.err ELSE "", c)
                   ELSE /\ calls' = c
                        /\ UNCHANGED <<pc, response>>
    /\ UNCHANGED <<ORS_KEY, GOOGLE_PLACES_KEY, now, body, start, startSource,
                   originTask, matrix, resolvedStops, suggested, destinationId,
                   intToId, solver>>
    /\ UNCHANGED <<heard, page>>

\* The answer to the call in flight of one stop's task arrives.  The task
\* runs on whether or not POST still awaits it.
StopReturns ==
    /\ \E i \in DOMAIN tasks :
        /\ tasks[i].st = "wait"
        /\ \E answer \in AnswersFor(tasks[i]) :
            LET r == resolveResume(tasks[i], answer, placesCache, now)
                ts == [tasks EXCEPT ![i] = r.task]
                c == countIssued(calls, r.task, r.issued)
            IN  /\ tasks' = ts
                /\ placesCache' = r.cache
                /\ IF pc = "stops"
                   THEN AwaitStops(ts, IF r.task.st = "err" THEN r.task.err ELSE "", c)
                   ELSE /\ calls' = c
                        /\ UNCHANGED <<pc, response>>
    /\ UNCHANGED <<ORS_KEY, GOOGLE_PLACES_KEY, now, body, start, startSource,
                   originTask, matrix, resolvedStops, suggested, destinationId,
                   intToId, solver>>
    /\ UNCHANGED <<heard, page>>

\* Respond without the previewOnly branch: the solver is always called.
Respond_noPreview(rs, sug, dest) ==
    /\ destinationId' = dest
    /\ intToId' = jobIds(rs, dest)
    /\ calls' = [calls EXCEPT !.solver = @ + 1]
    /\ pc' = "solver"
    /\ UNCHANGED response

\* route.ts:354-404: the preview response, or the destination, the jobs and
\* the solver call.
Respond(rs, sug, dest) ==
    IF body.previewOnly
    THEN /\ response' = PreviewResponse(rs, sug, start, startSource)
         /\ pc' = "done"
         /\ UNCHANGED <<destinationId, intToId, calls>>
    ELSE /\ destinationId' = dest
         /\ intToId' = jobIds(rs, dest)
         /\ calls' = [calls EXCEPT !.solver = @ + 1]
         /\ pc' = "solver"
         /\ UNCHANGED response

\* route.ts:336-404 given what the try block left of the matrix.
AfterMatrix(mx) ==
    LET rs == enrich(resolvedStopsBase(body.stops, tasks, start), mx)
        sug == suggestedIndex(rs)
    IN  /\ matrix' = mx
        /\ resolvedStops' = rs
        /\ suggested' = sug
        /\ Respond(rs, sug, chooseDestination(body, rs, sug))

\* MatrixStep without the try block of route.ts:327-334: a failure of the
\* matrix call reaches the handler's catch block.
MatrixStep_uncaught(answer) ==
    IF matrixResult(answer).ok
    THEN AfterMatrix(matrixResult(answer))
    ELSE /\ matrix' = matrixResult(answer)
         /\ response' = CatchResponse(IF answer.t = "abort" THEN "AbortError"
                                      ELSE "Matrix failed")
         /\ pc' = "done"
         /\ UNCHANGED <<resolvedStops, suggested, destinationId, intToId, calls>>

\* route.ts:323-404 from the end of the matrix call.
MatrixStep(answer) ==
    IF answer.t = "stall"
    THEN /\ pc' = "matrixBody"
         /\ UNCHANGED <<matrix, resolvedStops, suggested, destinationId, intToId,
                        calls, response>>
    ELSE AfterMatrix(matrixResult(answer))

\* The matrix call ends (route.ts:327-404): enrichment, the suggested
\* destination, then the preview response or the solver call.
MatrixReturns ==
    /\ pc = "matrix"
    /\ \E answer \in MatrixAnswers(Len(tasks)) : MatrixStep(answer)
    /\ UNCHANGED <<ORS_KEY, GOOGLE_PLACES_KEY, placesCache, now, body, start,
                   startSource, originTask, tasks, solver>>
    /\ UNCHANGED <<heard, page>>

\* The solver call ends (route.ts:396-442).
SolverReturns ==
    /\ pc = "solver"
    /\ \E answer \in SolverAnswers(Len(resolvedStops)) :
        /\ solver' = answer
        /\ IF answer.t = "stall"
           THEN pc' = "solverBody" /\ UNCHANGED response
           ELSE /\ response' = solverResponse(answer, resolvedStops, destinationId,
                                              intToId, start, startSource)
                /\ pc' = "done"
    /\ UNCHANGED <<ORS_KEY, GOOGLE_PLACES_KEY, placesCache, now, body, start,
                   startSource, originTask, tasks, matrix, resolvedStops, suggested,
                   destinationId, intToId, calls>>
    /\ UNCHANGED <<heard, page>>

Next == Request \/ OriginReturns \/ StopReturns \/ MatrixReturns \/ SolverReturns

Spec == Init /\ [][Next]_vars

(***************************************************************************)
(* The places cache under any callers: placesNearestByName is called from  *)
(* the fan-out of one request or of overlapping requests, at any time,     *)
(* while earlier calls are in flight.  tasks holds the calls in the order  *)
(* they were made.                                                         *)
(***************************************************************************)
\* The calls made: a chain name and a reference point.
Lookups ==
    {<<Starbucks, StartA>>, <<Starbucks, StartB>>, <<Starbucks, StartC>>,
     <<Chipotle, StartA>>}

\* The clock advances by half the TTL.
TickMs == PLACES_TTL_MS \div 2

\* placesNearestByName(ref, name) is called.
Resolve ==
    /\ Len(tasks) < MaxResolutions
    /\ \E lookup \in Lookups :
        LET r == placesStart(lookup[1], lookup[2], placesCache, now)
        IN  /\ tasks' = Append(tasks, r.task)
            /\ placesCache' = r.cache
            /\ calls' = [calls EXCEPT !.places = @ + r.issued]
    /\ UNCHANGED <<ORS_KEY, GOOGLE_PLACES_KEY, now, pc, body, start, startSource,
                   originTask, matrix, resolvedStops, suggested, destinationId,
                   intToId, solver, response>>
    /\ UNCHANGED <<heard, page>>

\* The answer to the call in flight of one of them arrives.
ResolveReturns ==
    /\ \E i \in DOMAIN tasks :
        /\ tasks[i].st = "wait"
        /\ \E answer \in PlacesAnswers :
            LET r == placesResume(tasks[i], answer, placesCache, now)
            IN  /\ tasks' = [tasks EXCEPT ![i] = r.task]
                /\ placesCache' = r.cache
                /\ calls' = [calls EXCEPT !.places = @ + r.issued]
    /\ UNCHANGED <<ORS_KEY, GOOGLE_PLACES_KEY, now, pc, body, start, startSource,
                   originTask, matrix, resolvedStops, suggested, destinationId,
                   intToId, solver, response>>
    /\ UNCHANGED <<heard, page>>

\* Time passes.
Tick ==
    /\ now < MaxTicks * TickMs
    /\ now' = now + TickMs
    /\ UNCHANGED <<ORS_KEY, GOOGLE_PLACES_KEY, placesCache, pc, body, start,
                   startSource, originTask, tasks, matrix, resolvedStops, suggested,
                   destinationId, intToId, solver, response, calls>>
    /\ UNCHANGED <<heard, page>>

NextCache == Resolve \/ ResolveReturns \/ Tick

SpecCache == Init /\ [][NextCache]_vars

(***************************************************************************)
(* The places cache in front of an upstream whose answers are fixed: the   *)
(* answer to a NearbySearch call depends on the brand, the location and    *)
(* the kind of search only.                                                *)
(***************************************************************************)
\* Around StartA the ranked search finds a Starbucks at PointNear; around
\* StartB, in the same cell, it finds none and the radius search finds one
\* at PointFar; around StartC the ranked search finds the one at PointNear;
\* no search finds a Chipotle.
FixedUpstream(name, ref, step) ==
    IF name # Starbucks THEN Ok(<< >>)
    ELSE IF ref = StartB
         THEN IF step = 1 THEN Ok(<<Place(CoffeeBean, Some(PointNear))>>)
              ELSE Ok(<<Place(StarbucksReserve, Some(PointFar))>>)
         ELSE Ok(<<Place(StarbucksReserve, Some(PointNear))>>)

\* The answer to the call in flight of one resolution arrives.
UpstreamAnswers ==
    /\ \E i \in DOMAIN tasks :
        /\ tasks[i].st = "wait"
        /\ LET answer == FixedUpstream(tasks[i].name, tasks[i].ref, tasks[i].step)
               r == placesResume(tasks[i], answer, placesCache, now)
           IN  /\ tasks' = [tasks EXCEPT ![i] = r.task]
               /\ placesCache' = r.cache
               /\ calls' = [calls EXCEPT !.places = @ + r.issued]
    /\ UNCHANGED <<ORS_KEY, GOOGLE_PLACES_KEY, now, pc, body, start, startSource,
                   originTask, matrix, resolvedStops, suggested, destinationId,
                   intToId, solver, response>>
    /\ UNCHANGED <<heard, page>>

NextFixed == Resolve \/ UpstreamAnswers \/ Tick

SpecFixed == Init /\ [][NextFixed]_vars

(***************************************************************************)
(* One resolution: resolveStopGeo(query, start) is called once, for the    *)
(* one stop of body, and each of its outbound calls is answered with any   *)
(* status and any short list of results.  heard keeps the answers.         *)
(***************************************************************************)
UpTo(S, n) == UNION {[1..k -> S] : k \in 0..n}

QueryLower == toLowerCase(QueryStarbucks) \o <<" ", "5", "t", "h">>
QueryChipotle == <<"c", "H", "I", "P", "O", "T", "L", "E">>
QueryBundt == <<"N", "o", "t", "h", "i", "n", "g", " ", "B", "U", "N", "D", "T">>
QuerySplit == <<"S", "t", "a", "r", " ", "b", "u", "c", "k", "s">>

ResolverQueries ==
    {QueryStarbucks, QueryLower, QueryChipotle, QueryBundt, QuerySplit, QueryAddress}

\* PointNearTwin has the coordinates of PointNear at 5 decimals.
PointNearTwin == [lat |-> 36180003, lon |-> -115140002]

\* The results of a places answer: of another brand, of the brand with a
\* location, of the brand without one.
PlaceResults ==
    {Place(CoffeeBean, Some(PointNear)), Place(StarbucksReserve, Some(PointFar)),
     Place(StarbucksReserve, Some(PointNear)), Place(StarbucksReserve, Undefined)}

\* The features of a geocode answer: their coordinates, or none.
Features == {Undefined, Some(PointFar), Some(PointNear), Some(PointNearTwin)}

\* An answer of EnoughCandidates features at distinct coordinates, and one
\* of as many features of which the last repeats the first.
crowd(k) == [lat |-> 36200000 + 1000 * k, lon |-> -115100000]

Crowd == Ok([k \in 1..EnoughCandidates |-> Some(crowd(k))])

CrowdRepeating ==
    Ok([k \in 1..EnoughCandidates |->
           IF k = EnoughCandidates THEN Some(crowd(1)) ELSE Some(crowd(k))])

Failures == {Abort, BadStatus, BadJson, Stalled}

ResolverAnswers(task) ==
    IF task.strategy = "google_places"
    THEN Failures \cup {Ok(r) : r \in UpTo(PlaceResults, MaxResults)}
    ELSE Failures \cup {Ok(f) : f \in UpTo(Features, MaxResults)}
         \cup {Crowd, CrowdRepeating}

\* resolveStopGeo(query, StartA) is called.
ResolveStop ==
    /\ pc = "idle"
    /\ tasks = << >>
    /\ \E query \in ResolverQueries :
        LET r == resolveStart(query, StartA, placesCache, now)
        IN  /\ body' = [NoBody EXCEPT !.stops = <<[id |-> IdA, query |-> query]>>]
            /\ tasks' = <<r.task>>
            /\ placesCache' = r.cache
            /\ calls' = countIssued(calls, r.task, r.issued)
    /\ start' = StartA
    /\ heard' = << >>
    /\ UNCHANGED <<ORS_KEY, GOOGLE_PLACES_KEY, now, pc, startSource, originTask,
                   matrix, resolvedStops, suggested, destinationId, intToId, solver,
                   response, page>>

\* The answer to its call in flight arrives.
ResolveHears ==
    /\ Len(tasks) = 1
    /\ tasks[1].st = "wait"
    /\ \E answer \in ResolverAnswers(tasks[1]) :
        LET r == resolveResume(tasks[1], answer, placesCache, now)
        IN  /\ tasks' = <<r.task>>
            /\ placesCache' = r.cache
            /\ calls' = countIssued(calls, r.task, r.issued)
            /\ heard' = Append(heard, answer)
    /\ UNCHANGED <<ORS_KEY, GOOGLE_PLACES_KEY, now, pc, body, start, startSource,
                   originTask, matrix, resolvedStops, suggested, destinationId,
                   intToId, solver, response, page>>

NextResolve == ResolveStop \/ ResolveHears

SpecResolve == Init /\ [][NextResolve]_vars

(***************************************************************************)
(* The plan page (page.tsx): the user removes and skips stops and clears   *)
(* the plan while the fetch of doOptimize is in flight.  A start is set.   *)
(***************************************************************************)
IdC == <<"c">>
IdD == <<"d">>

\* The ids of the deals a plan is made of.
DealIds == {<<IdA, IdB, IdC, IdD>>[i] : i \in 1..MaxPlan}

\* The lists over S without a repeat.
Orders(S) ==
    UNION {{f \in [1..k -> S] : \A i, j \in 1..k : f[i] = f[j] => i = j} :
              k \in 0..Cardinality(S)}

without(arr, id) == SelectSeq(arr, LAMBDA x : x # id)

\* The effects of page.tsx:526-542: a destination that left the plan is
\* cleared, skipped ids that left the plan are dropped.
planEffects(p) ==
    [p EXCEPT
        !.destinationId = IF @ \in Range(p.planIds) THEN @ ELSE << >>,
        !.skippedIds = SelectSeq(@, LAMBDA x : x \in Range(p.planIds))]

\* activeItems (page.tsx:553-556), as ids.
activeIds(p) == SelectSeq(p.planIds, LAMBDA x : x \notin Range(p.skippedIds))

\* The page is mounted with a stored plan (page.tsx:449-462).
InitPlan ==
    /\ ORS_KEY = TRUE
    /\ GOOGLE_PLACES_KEY = TRUE
    /\ placesCache = {}
    /\ now = 0
    /\ pc = "idle"
    /\ body = NoBody
    /\ start = NoGeo
    /\ startSource = "zip"
    /\ originTask = NoTask
    /\ tasks = << >>
    /\ matrix = NoMatrix
    /\ resolvedStops = << >>
    /\ suggested = 0
    /\ destinationId = << >>
    /\ intToId = << >>
    /\ solver = Abort
    /\ response = NoResponse
    /\ calls = NoCalls
    /\ heard = << >>
    /\ \E plan \in Orders(DealIds), off \in BOOLEAN :
          page = [NoPage EXCEPT !.planIds = plan, !.promptOff = off]

\* page.tsx:657-686
removeFromPlan(id) ==
    page' = planEffects(
        [page EXCEPT
            !.error = "", !.status = "",
            !.planIds = without(@, id),
            !.skippedIds = without(@, id),
            !.destinationId = IF @ = id THEN << >> ELSE @,
            !.lastRouteOrder = IF id \in Range(@) THEN << >> ELSE @])

\* page.tsx:635-649
toggleSkipped(id) ==
    LET skips == id \notin Range(page.skippedIds) IN
    page' = planEffects(
        [page EXCEPT
            !.skippedIds = IF skips THEN Append(@, id) ELSE without(@, id),
            !.destinationId = IF id = @ /\ skips THEN << >> ELSE @,
            !.status = IF id = page.destinationId /\ skips
                       THEN "Destination cleared (it was skipped)." ELSE @])

\* page.tsx:728-753
clearPlan ==
    page' = [page EXCEPT
                !.planIds = << >>, !.destinationId = << >>,
                !.lastRouteOrder = << >>, !.skippedIds = << >>]

\* page.tsx:755-760
setAsDestination(id) ==
    page' = [page EXCEPT !.destinationId = id, !.status = "Destination set.",
                         !.error = ""]

\* doOptimize up to its await (page.tsx:784-811): the values of the render
\* are kept by the call.
doOptimizeStart(p) ==
    IF Len(activeIds(p)) < 2
    THEN [p EXCEPT !.error = "Unskip at least 2 stops to optimize."]
    ELSE LET destToSend ==
                 IF p.destinationId # << >> /\ p.destinationId \in Range(p.planIds)
                 THEN p.destinationId ELSE << >>
             safeDestToSend ==
                 IF destToSend \in Range(p.skippedIds) THEN << >> ELSE destToSend
         IN  [p EXCEPT
                !.optimizing = TRUE,
                !.call = <<[planIds |-> p.planIds, destinationId |-> p.destinationId,
                            stops |-> activeIds(p), destinationIdSent |-> safeDestToSend]>>]

\* optimizeRoute (page.tsx:930-950); the preview it may open instead is
\* not followed.
optimizeRoute ==
    LET p == [page EXCEPT !.error = "", !.status = ""] IN
    page' = IF Len(activeIds(p)) < 2
            THEN [p EXCEPT !.error = "Unskip at least 2 stops to optimize."]
            ELSE IF (p.destinationId # << >> /\ p.destinationId \in Range(p.planIds)
                     /\ p.destinationId \notin Range(p.skippedIds)) \/ p.promptOff
            THEN doOptimizeStart(p)
            ELSE p

\* What the route answers a doOptimize call with: a failure, or the stops
\* it was sent in some order that ends with the destination, which is the
\* one sent if it is a stop.
OptimizeAnswers(call) ==
    {[ok |-> FALSE, orderedIds |-> << >>, destinationId |-> << >>]}
    \cup
    {[ok |-> TRUE, orderedIds |-> o, destinationId |-> o[Len(o)]] :
        o \in {f \in Orders(Range(call.stops)) :
                  /\ Len(f) = Len(call.stops)
                  /\ call.destinationIdSent \in Range(call.stops)
                        => f[Len(f)] = call.destinationIdSent}}

\* doOptimize from the answer on (page.tsx:813-872).
doOptimizeResume(p, call, data) ==
    IF ~data.ok
    THEN [p EXCEPT !.error = "Optimization failed.", !.optimizing = FALSE,
                   !.call = << >>]
    ELSE LET cleaned == SelectSeq(data.orderedIds, LAMBDA id : id \in Range(call.planIds))
             remaining == SelectSeq(call.planIds, LAMBDA id : id \notin Range(cleaned))
         IN  [p EXCEPT
                !.status = "Optimized",
                !.destinationId = IF data.destinationId # call.destinationId
                                  THEN data.destinationId ELSE @,
                !.lastRouteOrder = data.orderedIds,
                !.planIds = cleaned \o remaining,
                !.optimizing = FALSE,
                !.call = << >>]

\* The variables of the route, which the page leaves alone.
route == <<ORS_KEY, GOOGLE_PLACES_KEY, placesCache, now, pc, body, start,
           startSource, originTask, tasks, matrix, resolvedStops, suggested,
           destinationId, intToId, solver, response, calls, heard>>

\* The clicks of the user on the page.
Removes ==
    /\ \E id \in Range(page.planIds) : removeFromPlan(id)
    /\ UNCHANGED route

Skips ==
    /\ \E id \in Range(page.planIds) : toggleSkipped(id)
    /\ UNCHANGED route

Clears == clearPlan /\ UNCHANGED route

SetsDestination ==
    /\ \E id \in Range(page.planIds) : setAsDestination(id)
    /\ UNCHANGED route

\* The Optimize button is disabled while optimizing (page.tsx:1606).
Optimizes ==
    /\ ~page.optimizing
    /\ optimizeRoute
    /\ UNCHANGED route

\* The answer to the fetch of doOptimize arrives.
OptimizeReturns ==
    /\ page.call # << >>
    /\ \E data \in OptimizeAnswers(page.call[1]) :
          page' = planEffects(doOptimizeResume(page, page.call[1], data))
    /\ UNCHANGED route

NextPlan ==
    Removes \/ Skips \/ Clears \/ SetsDestination \/ Optimizes \/ OptimizeReturns

SpecPlan == InitPlan /\ [][NextPlan]_vars

(***************************************************************************)
(* The solver stage for requests of up to MaxSolveStops stops: POST from   *)
(* the await of the matrix call, with the origin taken from the request    *)
(* and every stop resolved by the geocoder.                                *)
(***************************************************************************)
IdEmpty == << >>

SolveStopLists ==
    UNION {[1..n -> {[id |-> x, query |-> QueryAddress] : x \in {IdA, IdB, IdEmpty}}] :
              n \in 1..MaxSolveStops}

SolveBodies ==
    [wellFormed : {TRUE}, startQuery : {Blank}, startCoords : {Some(StartA)},
     destinationId : {<< >>, IdB}, previewOnly : {FALSE}, stops : SolveStopLists]

\* A geocodeClosest call that went through its passes and was fulfilled.
ResolvedTask(ref, geo) ==
    [Fulfilled(Task("ors", << >>, ref, 0), geo) EXCEPT !.calls = Len(passes)]

InitSolve ==
    /\ ORS_KEY = TRUE
    /\ GOOGLE_PLACES_KEY = TRUE
    /\ placesCache = {}
    /\ now = 0
    /\ pc = "matrix"
    /\ body \in SolveBodies
    /\ start = StartA
    /\ startSource = "gps"
    /\ originTask = NoTask
    /\ tasks = [i \in DOMAIN body.stops |->
                  ResolvedTask(StartA, IF i = 1 THEN PointFar ELSE PointNear)]
    /\ matrix = NoMatrix
    /\ resolvedStops = << >>
    /\ suggested = 0
    /\ destinationId = << >>
    /\ intToId = << >>
    /\ solver = Abort
    /\ response = NoResponse
    /\ calls = [geocode |-> Len(passes) * Len(body.stops), places |-> 0, matrix |-> 1,
                solver |-> 0]
    /\ heard = << >>
    /\ page = NoPage

NextSolve == MatrixReturns \/ SolverReturns

SpecSolve == InitSolve /\ [][NextSolve]_vars

(***************************************************************************)
(* Properties.                                                             *)
(***************************************************************************)
stopIds == [i \in DOMAIN body.stops |-> body.stops[i].id]

DistinctIds ==
    \A i, j \in DOMAIN body.stops : body.stops[i].id = body.stops[j].id => i = j

Occurrences(seq, x) == Cardinality({i \in DOMAIN seq : seq[i] = x})

\* The matrix call of the request has ended.
MatrixEnded == calls.matrix = 1 /\ pc \notin {"matrix", "matrixBody"}

\* The index of the first stop of rs at the maximum of dist.
IsFirstFarthest(rs, k, dist(_)) ==
    /\ k \in DOMAIN rs
    /\ \A i \in DOMAIN rs : dist(rs[i]) <= dist(rs[k])
    /\ \A i \in DOMAIN rs : i < k => dist(rs[i]) < dist(rs[k])

\* C1: in every successful final response of a request with distinct stop
\* ids, orderedIds holds every input stop id exactly once and nothing else,
\* and destinationId is its last element.
C1_OrderedIdsPermutation ==
    (response.kind = "final" /\ DistinctIds) =>
        /\ Len(response.orderedIds) = Len(body.stops)
        /\ \A i \in DOMAIN body.stops :
              Occurrences(response.orderedIds, body.stops[i].id) = 1
        /\ response.orderedIds[Len(response.orderedIds)] = response.destinationId

\* Stops a and b, the solver answers with a success status and no route: the
\* response is the successful final one and orderedIds holds the destination
\* only.
C1_StopMissing ==
    /\ response.kind = "final" /\ response.optimized
    /\ stopIds = <<IdA, IdB>>
    /\ solver = Ok([routes |-> << >>])
    /\ Len(response.orderedIds) = 1

\* C2: a preview or final response lists one resolved stop per input stop,
\* with the input's ids in the input's order and the coordinate its task was
\* fulfilled with, and every task of the request was fulfilled; an error
\* response lists no stop.
C2_ResolutionAtomic ==
    /\ response.kind = "final" =>
          /\ Len(response.resolvedStops) = Len(body.stops)
          /\ \A i \in DOMAIN body.stops :
                /\ response.resolvedStops[i].id = body.stops[i].id
                /\ tasks[i].st = "ok"
                /\ response.resolvedStops[i].geo = tasks[i].geo
    /\ response.kind = "preview" =>
          /\ Len(response.stops) = Len(body.stops)
          /\ \A i \in DOMAIN body.stops :
                /\ response.stops[i].id = body.stops[i].id
                /\ tasks[i].st = "ok"
                /\ response.stops[i].geo = tasks[i].geo
    /\ response.kind = "error" =>
          /\ response.resolvedStops = << >>
          /\ response.stops = << >>
          /\ ~response.optimized

\* One stop of the request was resolved, another failed, and the request
\* was answered with an error.
C2_PartialFailure ==
    /\ response.kind = "error"
    /\ \E i, j \in DOMAIN tasks : tasks[i].st = "ok" /\ tasks[j].st = "err"

\* C3: a successful final response to a request whose destinationId is the
\* id of one of its stops carries that destinationId.
C3_OverrideVerbatim ==
    (/\ response.kind = "final"
     /\ body.destinationId # << >>
     /\ \E i \in DOMAIN body.stops : body.stops[i].id = body.destinationId)
        => response.destinationId = body.destinationId

\* Stops " a" and b with destinationId " a": the final response names b.
C3_OverrideLost ==
    /\ response.kind = "final"
    /\ stopIds = <<IdSpaceA, IdB>>
    /\ body.destinationId = IdSpaceA
    /\ response.destinationId = IdB

\* The request names no stop as its destination, be it verbatim or trimmed.
NoUsableOverride ==
    /\ ~destExists(body, resolvedStops)
    /\ \A i \in DOMAIN body.stops : body.stops[i].id # body.destinationId

SameCell(i, j) ==
    /\ tasks[i].name = tasks[j].name
    /\ toFixed2(tasks[i].ref.lat) = toFixed2(tasks[j].ref.lat)
    /\ toFixed2(tasks[i].ref.lon) = toFixed2(tasks[j].ref.lon)

\* C5 as stated: two resolutions for one brand and one cell issued less
\* than 24 h apart trigger at most one places call between them.
C5_AtMostOneCall ==
    \A i, j \in DOMAIN tasks :
        (i < j /\ SameCell(i, j) /\ tasks[j].since - tasks[i].since < PLACES_TTL_MS)
            => tasks[i].calls + tasks[j].calls <= 1

\* C5, amended: a resolution triggers at most two places calls, and none
\* when it is issued after a result for its brand and cell was stored and
\* less than 24 h after that.
C5_NoCallAfterStore ==
    \A j \in DOMAIN tasks :
        /\ tasks[j].calls <= 2
        /\ \A e \in placesCache :
              (/\ e.key = <<tasks[j].name, toFixed2(tasks[j].ref.lat),
                            toFixed2(tasks[j].ref.lon)>>
               /\ e.at < tasks[j].since
               /\ tasks[j].since - e.at < PLACES_TTL_MS)
                  => (tasks[j].calls = 0 /\ tasks[j].st = "ok" /\ tasks[j].geo = e.geo)

\* A resolution that went to the network and succeeded, then a later one
\* from another point of the same cell that was served without a call.
C5_SecondServedFromCache ==
    \E i, j \in DOMAIN tasks :
        /\ i < j
        /\ SameCell(i, j)
        /\ tasks[i].ref # tasks[j].ref
        /\ tasks[i].st = "ok" /\ tasks[i].calls > 0
        /\ tasks[j].st = "ok" /\ tasks[j].calls = 0
        /\ tasks[i].since < tasks[j].since

\* C6: when the matrix call has failed, no stop has a driving distance or an
\* ETA, the suggested stop is the first of those farthest in a straight line,
\* a preview request is answered with the preview, and a final request goes
\* on to the solver and fails only if the solver call fails.
C6_MatrixFailureSwallowed ==
    (MatrixEnded /\ ~matrix.ok) =>
        /\ Len(resolvedStops) = Len(body.stops)
        /\ \A i \in DOMAIN resolvedStops :
              resolvedStops[i].drive_mi = Undefined /\ resolvedStops[i].eta_min = Undefined
        /\ IsFirstFarthest(resolvedStops, suggested, LAMBDA s : s.dist_mi)
        /\ body.previewOnly =>
              /\ response.kind = "preview"
              /\ response.status = 200
              /\ \A i \in DOMAIN response.stops : response.stops[i].eta_min = Undefined
        /\ ~body.previewOnly =>
              /\ calls.solver = 1
              /\ pc = "done" =>
                    IF solver.t = "ok" THEN response.kind = "final" /\ response.optimized
                    ELSE response.kind = "error"

\* The matrix call failed and the final request succeeded, with two stops at
\* different straight-line distances.
C6_FinalDespiteMatrixFailure ==
    /\ MatrixEnded /\ ~matrix.ok
    /\ response.kind = "final"
    /\ Len(resolvedStops) = 2
    /\ resolvedStops[1].dist_mi # resolvedStops[2].dist_mi

MissingCredential == ~ORS_KEY \/ ~GOOGLE_PLACES_KEY

InvalidInput ==
    /\ body.wellFormed
    /\ \/ Len(body.stops) = 0
       \/ body.startCoords = Undefined /\ trim(body.startQuery) = << >>

\* C7: a request with a credential missing is answered with status 500, one
\* with no stops or no start with status 400, each with optimized false and
\* before any outbound call; and every response of status 400 or naming a
\* missing credential was sent before any outbound call.
C7_RejectedBeforeAnyCall ==
    /\ (pc # "idle" /\ MissingCredential) =>
          /\ response.kind = "error" /\ response.status = 500
          /\ ~response.optimized
          /\ calls = NoCalls
    /\ (pc # "idle" /\ ~MissingCredential /\ InvalidInput) =>
          /\ response.kind = "error" /\ response.status = 400
          /\ ~response.optimized
          /\ calls = NoCalls
    /\ (\/ response.status = 400
        \/ response.note \in {"Missing ORS_API_KEY", "Missing GOOGLE_PLACES_API_KEY"}) =>
          calls = NoCalls /\ tasks = << >> /\ originTask = NoTask

\* A request with a start text and no stops was answered with status 400.
C7_NoStopsRejected ==
    /\ response.status = 400
    /\ Len(body.stops) = 0
    /\ trim(body.startQuery) # << >>
    /\ body.startCoords = Undefined

\* C8: an error response has status 400 for invalid input, 500 for a missing
\* credential and 502 for a non-success status of the geocoder, the places
\* search or the solver.
C8_StatusByFailureClass ==
    response.kind = "error" =>
        /\ response.note \in {"No stops provided", "Missing start (coords or zip)"}
              => response.status = 400
        /\ response.note \in {"Missing ORS_API_KEY", "Missing GOOGLE_PLACES_API_KEY"}
              => response.status = 500
        /\ response.note \in {"Geocode failed", "Places NearbySearch failed",
                              "Places NearbySearch (radius) failed",
                              "ORS optimization failed"}
              => response.status = 502

\* The geocoder answered the lookup of an address stop with a non-success
\* status and the response has status 500.
C8_GeocoderFailureIs500 ==
    /\ response.kind = "error"
    /\ response.note = "Geocode failed"
    /\ response.status = 500
    /\ body.startCoords # Undefined
    /\ \E i \in DOMAIN tasks : tasks[i].strategy = "ors" /\ tasks[i].err = "Geocode failed"

\* C9: a preview request never has a solver call issued, never waits for
\* one, and is never answered with the solver's failure or a final response.
C9_PreviewNeverSolves ==
    body.previewOnly =>
        /\ calls.solver = 0
        /\ pc \notin {"solver", "solverBody"}
        /\ response.kind # "final"
        /\ response.note # "ORS optimization failed"

\* A preview request was answered with the preview after the matrix call.
C9_PreviewAnswered ==
    /\ body.previewOnly
    /\ response.kind = "preview"
    /\ calls.matrix = 1
    /\ calls.solver = 0

\* C10: a final request whose solver call answered with a success status
\* and no route, or a route without steps, is answered with an error.
C10_NoRouteIsFailure ==
    (/\ pc = "done"
     /\ calls.solver = 1
     /\ solver.t = "ok"
     /\ stepsOf(solver.data) = << >>)
        => (response.kind = "error" /\ ~response.optimized)

\* The solver answered with a success status and no route, and the response
\* is the successful final one.
C10_EmptyRouteSucceeds ==
    /\ pc = "done"
    /\ solver = Ok([routes |-> << >>])
    /\ response.kind = "final" /\ response.optimized /\ response.status = 200
    /\ response.routeDistance_m = Undefined

\* C11: the preview response of a request whose destinationId is the id of
\* one of its stops suggests that id, and otherwise the first of the
\* farthest stops.
C11_PreviewSuggestsOverride ==
    response.kind = "preview" =>
        IF \E i \in DOMAIN body.stops : body.stops[i].id = body.destinationId
        THEN response.suggestedDestinationId = body.destinationId
        ELSE response.suggestedDestinationId = resolvedStops[suggested].id

\* Stops a and b with destinationId a, and the preview response suggests b.
C11_PreviewIgnoresOverride ==
    /\ response.kind = "preview"
    /\ stopIds = <<IdA, IdB>>
    /\ body.destinationId = IdA
    /\ response.suggestedDestinationId = IdB

\* eta is sec / 60 rounded to the nearest minute, halves up, and at least 1.
IsEtaOf(eta, sec) ==
    /\ eta >= 1
    /\ IF sec < 90 THEN eta = 1
       ELSE 60 * eta - 30 <= sec /\ sec < 60 * eta + 30

\* C12: a stop has an ETA exactly when the matrix answered with a duration
\* for it, the ETA is that duration in minutes rounded to the nearest, at
\* least 1, and the preview response reports it unchanged.
C12_EtaAtLeastOneMinute ==
    (MatrixEnded /\ resolvedStops # << >>) =>
        \A i \in DOMAIN resolvedStops :
            /\ resolvedStops[i].eta_min # Undefined <=>
                  (matrix.ok /\ i \in DOMAIN matrix.drivingSeconds
                             /\ matrix.drivingSeconds[i] # Undefined)
            /\ resolvedStops[i].eta_min # Undefined =>
                  IsEtaOf(resolvedStops[i].eta_min[1], matrix.drivingSeconds[i][1])
            /\ response.kind = "preview" =>
                  response.stops[i].eta_min = resolvedStops[i].eta_min

\* A preview reports 1 minute for a duration of 20 s and 2 minutes for one
\* of 90 s.
C12_ShortAndHalfMinute ==
    /\ response.kind = "preview"
    /\ Len(resolvedStops) = 2
    /\ matrix.drivingSeconds = <<Some(20), Some(90)>>
    /\ response.stops[1].eta_min = Some(1)
    /\ response.stops[2].eta_min = Some(2)

\* The moves of POST from one await to the next.
StepOrder ==
    {<<"idle", "origin">>, <<"idle", "stops">>, <<"idle", "matrix">>, <<"idle", "done">>,
     <<"origin", "stops">>, <<"origin", "matrix">>, <<"origin", "done">>,
     <<"stops", "matrix">>, <<"stops", "done">>,
     <<"matrix", "solver">>, <<"matrix", "done">>, <<"matrix", "matrixBody">>,
     <<"solver", "done">>, <<"solver", "solverBody">>}

\* C13: POST moves forward only; the stop resolutions start in the step
\* that fixes the origin, from the request's coordinates or from the
\* fulfilled origin lookup; the matrix call is issued in the step in which
\* the last stop is fulfilled; the solver call is issued in the step that
\* ends the matrix call, with the ranking and the destination set; the
\* preview is sent in that step instead; and one response is sent, last.
C13_StepOrder ==
    [][/\ pc' # pc => <<pc, pc'>> \in StepOrder
       /\ (tasks = << >> /\ tasks' # << >>) =>
             /\ pc \in {"idle", "origin"}
             /\ IF body'.startCoords # Undefined
                THEN pc = "idle" /\ start' = body'.startCoords[1]
                ELSE pc = "origin" /\ originTask'.st = "ok" /\ start' = originTask'.geo
             /\ Len(tasks') = Len(body'.stops)
             /\ \A i \in DOMAIN tasks' : tasks'[i].ref = start'
       /\ calls'.matrix # calls.matrix =>
             /\ calls.matrix = 0 /\ calls'.matrix = 1
             /\ pc \in {"idle", "origin", "stops"} /\ pc' = "matrix"
             /\ tasks' # << >>
             /\ \A i \in DOMAIN tasks' : tasks'[i].st = "ok"
       /\ calls'.solver # calls.solver =>
             /\ calls.solver = 0 /\ calls'.solver = 1
             /\ pc = "matrix" /\ pc' = "solver"
             /\ ~body.previewOnly
             /\ Len(resolvedStops') = Len(tasks)
             /\ suggested' \in DOMAIN resolvedStops'
             /\ \E i \in DOMAIN resolvedStops' : resolvedStops'[i].id = destinationId'
       /\ (pc = "matrix" /\ pc' # "matrixBody" /\ body.previewOnly) =>
             (pc' = "done" /\ response'.kind = "preview")
       /\ response' # response =>
             (response = NoResponse /\ pc # "done" /\ pc' = "done")
       /\ (pc' = "done" /\ pc # "done") => response' # NoResponse
       /\ pc = "done" => (calls'.matrix = calls.matrix /\ calls'.solver = calls.solver)
      ]_vars

\* A request went through every step: the origin looked up, two stops
\* resolved, the matrix call, the solver call, the final response.
C13_FullRun ==
    /\ response.kind = "final"
    /\ originTask.st = "ok"
    /\ Len(tasks) = 2
    /\ calls.matrix = 1
    /\ calls.solver = 1

\* C14: a request that was received and is not answered yet has a step to
\* take: some call that it awaits is in flight under its timer, so that it
\* ends with an answer or with the timer's abort.
C14_RequestNeverStuck ==
    pc \notin {"idle", "done"} => ENABLED Next

\* The solver sent its response head within the deadline and its body never
\* ended: the timer is cleared, no call of the request is in flight and no
\* response was sent.
C14_StuckReadingBody ==
    /\ pc = "solverBody"
    /\ calls.solver = 1
    /\ response = NoResponse
    /\ \A i \in DOMAIN tasks : tasks[i].st = "ok"
    /\ ~ENABLED Next

\* C15: for a request with distinct stop ids, the table of the solver call
\* maps the job ids 1..N, in order, to the ids of the stops other than the
\* destination, in input order; the destination is one of the stops, so N is
\* the number of stops less one, and no id is mapped twice.
C15_JobsDenseInInputOrder ==
    (calls.solver = 1 /\ DistinctIds) =>
        /\ intToId = SelectSeq(stopIds, LAMBDA x : x # destinationId)
        /\ Len(intToId) = Len(body.stops) - 1
        /\ \E i \in DOMAIN body.stops : body.stops[i].id = destinationId
        /\ \A j, k \in DOMAIN intToId : intToId[j] = intToId[k] => j = k
        /\ \A j \in DOMAIN intToId : intToId[j] # destinationId

\* Three stops with the second as the destination: job 1 is the first stop
\* and job 2 the third.
C15_MiddleStopIsDestination ==
    /\ calls.solver = 1
    /\ Len(body.stops) = 3
    /\ DistinctIds
    /\ destinationId = stopIds[2]
    /\ intToId = <<stopIds[1], stopIds[3]>>

\* The steps of the solver's answer that carry one of the submitted job
\* ids, in the order of the answer.
jobSteps(data) ==
    SelectSeq(stepsOf(data), LAMBDA step : step # Undefined /\ step[1] \in DOMAIN intToId)

\* C16: in a successful final response, orderedIds without its last element
\* is the list of the stop ids of the job steps of the solver's answer, in
\* the answer's order, and the last element is destinationId.
C16_SolverOrderKept ==
    response.kind = "final" =>
        LET jobs == jobSteps(solver.data)
            ids == response.orderedIds
        IN  /\ Len(ids) = Len(jobs) + 1
            /\ \A k \in DOMAIN jobs : ids[k] = intToId[jobs[k][1]]
            /\ ids[Len(ids)] = destinationId
            /\ response.destinationId = destinationId

\* Stops "", b and a with destinationId b; the solver answers with job 2
\* then job 1, and orderedIds is a, b: the stop of job 1 is missing.
C16_EmptyIdDropped ==
    /\ response.kind = "final"
    /\ stopIds = <<IdEmpty, IdB, IdA>>
    /\ destinationId = IdB
    /\ jobSteps(solver.data) = <<Some(2), Some(1)>>
    /\ response.orderedIds = <<IdA, IdB>>

\* The cache key of the resolution j: its brand and its cell.
keyOf(j) == <<tasks[j].name, toFixed2(tasks[j].ref.lat), toFixed2(tasks[j].ref.lon)>>

\* C17: a resolution issued after an entry for its key was stored triggers
\* no places call if the entry's age is at most 24 h, and goes to the
\* network if it is more.
C17_HitThroughTtl ==
    \A j \in DOMAIN tasks : \A e \in placesCache :
        (e.key = keyOf(j) /\ e.at < tasks[j].since) =>
            IF tasks[j].since - e.at <= PLACES_TTL_MS
            THEN tasks[j].calls = 0
            ELSE tasks[j].calls >= 1

\* A resolution issued exactly 24 h after the entry for its key was stored
\* has a places call in flight.
C17_MissAtExactlyTtl ==
    \E j \in DOMAIN tasks : \E e \in placesCache :
        /\ e.key = keyOf(j)
        /\ tasks[j].since - e.at = PLACES_TTL_MS
        /\ tasks[j].st = "wait"
        /\ tasks[j].calls = 1

\* C18: a step changes the cache only by storing, under the key of a
\* resolution that this step fulfils from a places answer, the coordinate
\* it returns and the time; a step in which a resolution fails leaves the
\* cache as it was; and every entry holds the coordinate that a fulfilled
\* resolution for its key returned from the network.
C18_WrittenOnSuccessOnly ==
    [][/\ placesCache' # placesCache =>
             \E i \in DOMAIN tasks :
                 /\ tasks[i].st = "wait" /\ tasks'[i].st = "ok"
                 /\ placesCache' =
                       {e \in placesCache : e.key # keyOf(i)}
                           \cup {[key |-> keyOf(i), at |-> now, geo |-> tasks'[i].geo]}
       /\ (\E i \in DOMAIN tasks : tasks[i].st = "wait" /\ tasks'[i].st \in {"err", "body"})
             => placesCache' = placesCache
       /\ \A e \in placesCache' :
             \E i \in DOMAIN tasks' :
                 /\ tasks'[i].st = "ok" /\ tasks'[i].calls >= 1
                 /\ <<tasks'[i].name, toFixed2(tasks'[i].ref.lat),
                      toFixed2(tasks'[i].ref.lon)>> = e.key
                 /\ tasks'[i].geo = e.geo
      ]_vars

\* A resolution stored its result; a later one for the same key, issued
\* once the entry had expired, went to the network and failed; the cache
\* still holds the first one's entry.
C18_FailureLeavesEntry ==
    \E i, j \in DOMAIN tasks : \E e \in placesCache :
        /\ tasks[i].st = "ok" /\ tasks[i].calls >= 1
        /\ tasks[j].st = "err" /\ tasks[j].calls >= 1
        /\ keyOf(i) = keyOf(j) /\ e.key = keyOf(i)
        /\ e.geo = tasks[i].geo
        /\ e.at < tasks[j].since

\* What placesNearestByName(ref, name) ends with when the cache is empty
\* and stays so: the task after the answers of the fixed upstream.
uncached(name, ref) ==
    LET first == placesStart(name, ref, {}, 0).task
        second == IF first.st = "wait"
                  THEN placesResume(first, FixedUpstream(name, ref, 1), {}, 0).task
                  ELSE first
    IN  IF second.st = "wait"
        THEN placesResume(second, FixedUpstream(name, ref, 2), {}, 0).task
        ELSE second

\* C19: with fixed upstream answers, a resolution ends as the same
\* resolution ends without the cache: with the same coordinate, or with the
\* same failure.
C19_CacheTransparent ==
    \A j \in DOMAIN tasks :
        tasks[j].st \in {"ok", "err"} =>
            /\ tasks[j].st = uncached(tasks[j].name, tasks[j].ref).st
            /\ tasks[j].geo = uncached(tasks[j].name, tasks[j].ref).geo
            /\ tasks[j].err = uncached(tasks[j].name, tasks[j].ref).err

\* The resolution from StartA stored PointNear; the one from StartB, in the
\* same cell, is served PointNear from the cache, and PointFar is what the
\* upstream answers for StartB.
C19_NeighbourServedOtherResult ==
    \E i, j \in DOMAIN tasks :
        /\ tasks[i].ref = StartA /\ tasks[i].st = "ok" /\ tasks[i].calls = 1
        /\ tasks[j].ref = StartB /\ tasks[j].st = "ok" /\ tasks[j].calls = 0
        /\ tasks[j].name = Starbucks /\ tasks[i].name = Starbucks
        /\ tasks[j].geo = PointNear
        /\ uncached(Starbucks, StartB).geo = PointFar

\* The resolutions of the request: the one of the origin and those of the
\* stops.
resolutions == {originTask} \cup Range(tasks)

\* The failures a non-success status of an upstream produces, and the
\* failures of a search that found nothing.
UpstreamFailure ==
    {"Geocode failed", "Places NearbySearch failed", "Places NearbySearch (radius) failed"}

GeocodeNotFound == {"No geocode result", "Places returned no strict match"}

\* C20: a resolution fails with an upstream failure only if every call it
\* made was answered with a non-success status.  The calls before the last
\* one of a resolution were answered with success (only a success leads to
\* a next call), so such a resolution made one call.  It fails for a search
\* that found nothing only after the last pass or phase, every call having
\* succeeded.
C20_UpstreamFailureIffAllCallsFail ==
    \A t \in resolutions :
        /\ (t.st = "err" /\ t.err \in UpstreamFailure) => t.calls = 1
        /\ (t.st = "err" /\ t.err \in GeocodeNotFound) =>
                t.calls = (IF t.strategy = "ors" THEN Len(passes) ELSE 2)

\* The first pass of geocodeClosest was answered with success, the second
\* with a non-success status, and the resolution failed for the status.
C20_FailsAfterSuccessfulCall ==
    \E t \in resolutions :
        /\ t.strategy = "ors"
        /\ t.st = "err"
        /\ t.err = "Geocode failed"
        /\ t.calls = 2

\* The results of an answer whose name contains the brand name, whatever
\* the case of the letters.
qualifying(answer, brand) ==
    SelectSeq(answer.data, LAMBDA r : includes(toLowerCase(r.name), toLowerCase(brand)))

\* The brand-aware resolution under study, once phase (a) was answered with
\* success.
PhaseAHeard ==
    /\ Len(tasks) = 1
    /\ tasks[1].strategy = "google_places"
    /\ Len(heard) >= 1
    /\ heard[1].t = "ok"

PhaseBHeard == PhaseAHeard /\ Len(heard) = 2 /\ heard[2].t = "ok"

\* g is the location of a qualifying result of the answer, and no
\* qualifying result of the answer lies nearer to ref.
IsNearestQualifying(g, answer, brand, ref) ==
    LET q == qualifying(answer, brand) IN
    /\ \E i \in DOMAIN q : q[i].loc = Some(g)
    /\ \A i \in DOMAIN q :
          q[i].loc # Undefined => haversineMeters(ref, g) <= haversineMeters(ref, q[i].loc[1])

\* What C21 states of a success and of the failure: a resolution ended by
\* phase (a) returns the first qualifying result of phase (a); one ended by
\* phase (b) returns the qualifying result of phase (b) nearest to the
\* reference point; with no qualifying result in either phase it fails for
\* having found nothing.
PhaseResults ==
    /\ (PhaseAHeard /\ Len(heard) = 1 /\ tasks[1].st = "ok") =>
            qualifying(heard[1], tasks[1].name)[1].loc = Some(tasks[1].geo)
    /\ (PhaseBHeard /\ tasks[1].st = "ok") =>
            IsNearestQualifying(tasks[1].geo, heard[2], tasks[1].name, tasks[1].ref)
    /\ (PhaseBHeard /\ qualifying(heard[1], tasks[1].name) = << >>
                    /\ qualifying(heard[2], tasks[1].name) = << >>) =>
            tasks[1].st = "err" /\ tasks[1].err = "Places returned no strict match"

\* C21 as stated: the radius search (phase b) is issued only if phase (a)
\* yielded no qualifying result; successes and the failure are as in
\* PhaseResults.
C21_PhaseBOnlyWithoutQualifying ==
    /\ (PhaseAHeard /\ tasks[1].calls = 2) => qualifying(heard[1], tasks[1].name) = << >>
    /\ PhaseResults

\* C21 amended: the radius search is issued exactly when phase (a) yielded
\* no qualifying result or its first qualifying result has no numeric
\* location; successes and the failure are as in PhaseResults.
C21_PhaseBWithoutUsableFirst ==
    /\ PhaseAHeard =>
          (tasks[1].calls = 2 <=>
              LET q == qualifying(heard[1], tasks[1].name)
              IN  q = << >> \/ q[1].loc = Undefined)
    /\ PhaseResults

\* Phase (a) listed a qualifying result without a location first, phase (b)
\* was issued and its nearest qualifying result, listed second, was returned.
C21_FallbackAfterUnlocatedMatch ==
    /\ PhaseBHeard
    /\ qualifying(heard[1], tasks[1].name) # << >>
    /\ Len(qualifying(heard[2], tasks[1].name)) = 2
    /\ qualifying(heard[2], tasks[1].name)[1].loc = Some(PointFar)
    /\ tasks[1].st = "ok"
    /\ tasks[1].geo = PointNear

\* The generic resolution under study; POST starts none without the key
\* (route.ts:279).
GenericHeard == Len(tasks) = 1 /\ tasks[1].strategy = "ors" /\ ORS_KEY

\* The features with coordinates of the first k answers, in the order they
\* came.
RECURSIVE featuresOf(_, _)
featuresOf(answers, k) ==
    IF k = 0 THEN << >>
    ELSE featuresOf(answers, k - 1)
         \o (IF answers[k].t = "ok"
             THEN SelectSeq(answers[k].data, LAMBDA f : f # Undefined)
             ELSE << >>)

\* The unique candidates among them: a feature counts unless an earlier
\* one has its coordinates at 5 decimals.
candidates(answers, k) ==
    LET fs == featuresOf(answers, k) IN
    {fs[i][1] : i \in {j \in DOMAIN fs :
        \A h \in 1..(j - 1) :
            <<toFixed5(fs[h][1].lat), toFixed5(fs[h][1].lon)>>
                # <<toFixed5(fs[j][1].lat), toFixed5(fs[j][1].lon)>>}}

AllOk(answers) == \A k \in DOMAIN answers : answers[k].t = "ok"

\* C22: the passes are issued in the order 8 km, 20 km, 50 km, the next one
\* exactly while fewer than 15 unique candidates are accumulated and a pass
\* is left; the result is an accumulated candidate at minimum distance to
\* the reference point; the resolution fails for having found nothing
\* exactly when all passes were answered and accumulated no candidate.
C22_PassesUntilEnough ==
    GenericHeard =>
        LET t == tasks[1]
            got == candidates(heard, Len(heard))
        IN  /\ t.st = "wait" =>
                  /\ t.calls = Len(heard) + 1
                  /\ passes[t.step] = <<8000, 20000, 50000>>[Len(heard) + 1]
            /\ AllOk(heard) =>
                  (t.st = "wait" <=> Cardinality(got) < 15 /\ Len(heard) < 3)
            /\ t.st = "ok" =>
                  /\ t.geo \in got
                  /\ \A c \in got :
                        haversineMeters(t.ref, t.geo) <= haversineMeters(t.ref, c)
            /\ (t.st = "err" /\ t.err = "No geocode result")
                  <=> (AllOk(heard) /\ Len(heard) = 3 /\ got = {})

\* The first pass is answered with 15 features of which one repeats another,
\* the second pass adds two features at the coordinates of one candidate,
\* and the resolution ends there, with the nearest of 15.
C22_StopsAtFifteenUnique ==
    /\ GenericHeard
    /\ Len(heard) = 2
    /\ heard[1] = CrowdRepeating
    /\ heard[2] = Ok(<<Some(PointNear), Some(PointNearTwin)>>)
    /\ tasks[1].st = "ok"
    /\ tasks[1].calls = 2
    /\ tasks[1].geo = PointNear

\* The registry: brand keyword and canonical brand name.
BrandRegistry ==
    {<<toLowerCase(Starbucks), Starbucks>>, <<toLowerCase(Chipotle), Chipotle>>,
     <<NothingBundt, NothingBundtCakes>>}

\* The entries whose keyword the query contains, whatever the case of its
\* letters.
brandsIn(query) == {e \in BrandRegistry : includes(toLowerCase(query), e[1])}

\* C23: the stop is resolved by the places strategy if and only if its
\* query contains a brand keyword, case-insensitively, and by the geocoder
\* otherwise; its pickedFrom tag names the strategy (and the canonical
\* brand); it issues calls of one strategy only.
C23_StrategyByBrandKeyword ==
    Len(tasks) = 1 =>
        LET t == tasks[1]
            found == brandsIn(body.stops[1].query)
        IN  /\ t.strategy = "google_places" <=> found # {}
            /\ t.strategy = "ors" <=> found = {}
            /\ found # {} =>
                  /\ \E e \in found : pickedFrom(t) = <<"google_places", e[2]>>
                  /\ calls.geocode = 0
            /\ found = {} =>
                  /\ pickedFrom(t) = <<"ors">>
                  /\ calls.places = 0

\* A query in mixed case was resolved under the canonical brand name by two
\* places calls and no geocode call.
C23_MixedCaseBrand ==
    /\ Len(tasks) = 1
    /\ body.stops[1].query = QueryBundt
    /\ pickedFrom(tasks[1]) = <<"google_places", NothingBundtCakes>>
    /\ calls.places = 2
    /\ calls.geocode = 0

\* The calls the tasks of one strategy have issued.
RECURSIVE callsOf(_, _)
callsOf(ts, strategy) ==
    IF ts = << >> THEN 0
    ELSE (IF Head(ts).strategy = strategy THEN Head(ts).calls ELSE 0)
         + callsOf(Tail(ts), strategy)

\* The k-th call of a task in flight is the call of its pass or phase k,
\* and a task has no more calls than passes or phases.
OneCallPerStep(t) ==
    /\ t.calls <= (IF t.strategy = "google_places" THEN 2 ELSE Len(passes))
    /\ t.st = "wait" => t.calls = t.step

\* A task that has ended, or that failed in this step, issues no call.
NoCallAfterEnd(t, tNext) ==
    /\ t.st \in {"ok", "err"} => tNext = t
    /\ tNext.st = "err" => tNext.calls = t.calls
    /\ tNext.calls <= t.calls + 1

NoRetry ==
    /\ calls'.matrix <= 1
    /\ calls'.solver <= 1
    /\ calls'.geocode = originTask'.calls + callsOf(tasks', "ors")
    /\ calls'.places = callsOf(tasks', "google_places")
    /\ OneCallPerStep(originTask')
    /\ NoCallAfterEnd(originTask, originTask')
    /\ \A i \in DOMAIN tasks' : OneCallPerStep(tasks'[i])
    /\ \A i \in DOMAIN tasks : NoCallAfterEnd(tasks[i], tasks'[i])

\* C24: within one request every outbound call is the one call of its step
\* (the matrix call, the solver call, a geocode pass or a places phase of
\* one task), and a step that failed issues no call.
C24_NoRetry == [][NoRetry]_vars

\* The matrix call and the solver call failed, and each was issued once.
C24_FailedOnce ==
    /\ pc = "done"
    /\ matrix.ok = FALSE
    /\ calls.matrix = 1
    /\ calls.solver = 1
    /\ response.status = 502

\* Task i was in flight and its call was aborted at its deadline in this
\* step.
AbortedNow(i) ==
    /\ tasks[i].st = "wait"
    /\ tasks'[i].st = "err"
    /\ tasks'[i].err = "AbortError"

C26_DuplicateIdsRejected ==
    (pc # "idle" /\ ORS_KEY /\ GOOGLE_PLACES_KEY /\ body.wellFormed /\ ~DistinctIds) =>
        /\ pc = "done"
        /\ response.status = 400
        /\ calls = NoCalls

\* Two stops with the id a were resolved, the matrix and the solver were
\* called, and the answer is the successful final one whose orderedIds
\* names a once.
C26_DuplicatesOptimized ==
    /\ stopIds = <<IdA, IdA>>
    /\ response.kind = "final" /\ response.status = 200 /\ response.optimized
    /\ calls.solver = 1
    /\ intToId = << >>
    /\ response.orderedIds = <<IdA>>

\* C27: the stops the destination is chosen among are ranked on one
\* metric: all of them by their driving distance or all of them by their
\* straight-line distance.
C27_OneRankingMetric ==
    resolvedStops # << >> =>
        \/ \A i \in DOMAIN resolvedStops : IsNumber(resolvedStops[i].drive_mi)
        \/ \A i \in DOMAIN resolvedStops : ~IsNumber(resolvedStops[i].drive_mi)

\* The matrix answered with no number for the first stop and with 9000 m
\* for the second; both stops lie at one point, and the second was
\* suggested because its driving distance exceeds the straight-line
\* distance of the first.
C27_MixedComparison ==
    /\ Len(resolvedStops) = 2
    /\ matrix.ok
    /\ resolvedStops[1].drive_mi = Undefined
    /\ resolvedStops[2].drive_mi = Some(metersToMiles(9000))
    /\ resolvedStops[1].geo = resolvedStops[2].geo
    /\ rankingDistance(resolvedStops[1]) = resolvedStops[1].dist_mi
    /\ suggested = 2

\* C28: once the request has its response, none of its tasks has a call in
\* flight, and no step issues a call or writes the cache.
C28_QuietAfterResponse ==
    [][response # NoResponse =>
          /\ \A i \in DOMAIN tasks : tasks[i].st # "wait"
          /\ calls' = calls
          /\ placesCache' = placesCache]_vars

\* The geocoding of the second stop failed and the request was answered
\* 500 while the call of the first stop's places task is in flight; nothing
\* is cached yet.
C28_InFlightAtResponse ==
    /\ pc = "done"
    /\ response.kind = "error"
    /\ Len(tasks) = 2
    /\ tasks[1].strategy = "google_places" /\ tasks[1].st = "wait"
    /\ tasks[2].st = "err"
    /\ placesCache = {}

\* The response carries startUsed: it is the preview or the final one.
HasStartUsed == response.kind \in {"preview", "final"}

\* C29: with startCoords the origin is never geocoded and the responses
\* name the coordinates with the source "gps"; the source is "zip" exactly
\* when the origin task was fulfilled, and then the origin is its result;
\* when the origin task is rejected the request fails and no stop was ever
\* resolved.
C29_OriginSource ==
    /\ (pc # "idle" /\ body.startCoords # Undefined) =>
          /\ originTask = NoTask
          /\ calls.geocode = callsOf(tasks, "ors")
          /\ HasStartUsed =>
                response.startUsed = startUsedOf(body.startCoords[1], "gps")
    /\ HasStartUsed =>
          /\ response.startUsed[1].source = "zip" <=> originTask.st = "ok"
          /\ response.startUsed[1].source = "gps" <=> body.startCoords # Undefined
          /\ originTask.st = "ok" =>
                response.startUsed = startUsedOf(originTask.geo, "zip")
    /\ originTask.st = "err" =>
          /\ pc = "done" /\ response.kind = "error" /\ response.status = 500
          /\ tasks = << >>
          /\ calls.places = 0 /\ calls.matrix = 0 /\ calls.solver = 0
          /\ calls.geocode = originTask.calls

\* A request with both startCoords and a ZIP was answered from the
\* coordinates, without an origin call.
C29_CoordsBeatQuery ==
    /\ body.startCoords = Some(StartA)
    /\ body.startQuery = Zip
    /\ HasStartUsed
    /\ response.startUsed = startUsedOf(StartA, "gps")
    /\ originTask = NoTask

\* This step applies a successful optimize response to the plan.
Applied == page.optimizing /\ ~page'.optimizing /\ page'.status = "Optimized"

NoRepeat(seq) == \A i, j \in DOMAIN seq : seq[i] = seq[j] => i = j

\* C30: the step that applies an optimize response leaves a plan without
\* repeats that has the ids of the plan as it stood before the step: the
\* returned orderedIds that are in that plan, in the server's order, then
\* the other ids of that plan in their order.
C30_ResponseReordersCurrentPlan ==
    [][Applied =>
          LET before == page.planIds
              after == page'.planIds
              orderedIds == page'.lastRouteOrder
          IN  /\ NoRepeat(after)
              /\ Range(after) = Range(before)
              /\ after = SelectSeq(orderedIds, LAMBDA id : id \in Range(before))
                         \o SelectSeq(before, LAMBDA id : id \notin Range(orderedIds))]_vars

\* A stop of the plan the doOptimize call in flight was made from has left
\* the plan since: the call holds the plan of its render.
C30_RemovedWhileInFlight ==
    /\ page.optimizing
    /\ page.call # << >>
    /\ page.call[1].planIds = <<IdA, IdB, IdC>>
    /\ page.planIds = <<IdA, IdC>>
    /\ page.call[1].stops = <<IdA, IdB, IdC>>

====
